---- MODULE Spec2Model ----
(***************************************************************************)
(* A model of eandre/discover: the profile correlator (ParseProfile in     *)
(* parse.go) and the tree trimmer (Profile.Trim in trim.go).               *)
(*                                                                         *)
(* Part I models the two-pointer sweep of ParseProfile step by step: one   *)
(* action per branch of the inner loop body, one for the outer loop test,  *)
(* one for the inner loop running out of records.                          *)
(*                                                                         *)
(* Part II models Profile.Trim: the syntax tree is a nested record, the    *)
(* maps Profile.Stmts and Profile.Funcs are carried on the nodes they key  *)
(* (field reached), and ast.Walk with trimVisitor is the operator Walk.    *)
(* The loop of parseProfile (cmd/discover/main.go) over the parsed files   *)
(* runs Trim and writes what is left of each file.                         *)
(*                                                                         *)
(* Part III models the block instrumenter (build/cover.go): the syntax     *)
(* tree carries token positions, and ast.Walk with fileCover yields the    *)
(* list f.blocks.  Part IV models rewritePkg, rewriteFile and the self     *)
(* check of addVariables, one task per file.  Part V models the rewritten  *)
(* go statement (addGoFunc in build/rewrite.go, runtimeutil.MakeFunc).     *)
(***************************************************************************)
EXTENDS Integers, Sequences, FiniteSets, TLC

(***************************************************************************)
(* Bounds of the correlator model.                                         *)
(***************************************************************************)
MaxBlocks == 2   \* records per file
MaxFuncs == 1    \* function extents per file
MaxStmts == 2    \* statement extents per file
MaxN == 3        \* statements of the synthetic round-trip tree

MaxDecls == 3    \* top-level declarations of a file
MaxDepth == 2    \* nesting depth of the statements of a function body
MaxElseIf == 1   \* length of the else-if chain of a conditional
MaxClauses == 2  \* communication clauses of a select statement
MaxFiles == 2    \* files of a profile

\* The position grid and the execution counts of the general sweep.
Lines == {1, 2}
Cols == {1, 2}
Counts == {0, 1}

\* The wider grid of the synthetic round-trip tree.
RTCols == {1, 2, 3}

VARIABLES
    profBlocks,  \* prof.Blocks: the records of the file, as parsed
    allFuncs,    \* visitor.funcs as returned by findFuncs
    allStmts,    \* visitor.stmts as returned by findFuncs
    funcs,       \* the local funcs slice (remaining function extents)
    stmts,       \* the local stmts slice (remaining statement extents)
    blocks,      \* the local blocks slice (the shared record cursor)
    i,           \* index of the inner range loop (1-based)
    Funcs,       \* profile.Funcs: the decls mapped to true
    Stmts,       \* profile.Stmts: the stmts mapped to true
    pc,          \* position in ParseProfile
    tree,        \* the *ast.File given to Trim
    origTree,    \* that file as it was parsed
    stmt,        \* the statement given to replaceStmt
    origStmt,    \* that statement as it was before the call
    out,         \* the statements replaceStmt returned
    tpc,         \* position of the trimmer (and of the loop of parseProfile)
    onceTree,    \* the file as the first Trim left it
    profFiles,   \* prof.Files, as parsed
    fidx,        \* index of the range loop of parseProfile over prof.Files (1-based)
    outputDir,   \* the -output flag
    created,     \* the destination files created, in order
    stdout,      \* what was written to the console, in order
    retErr,      \* the error parseProfile returned
    cfile,       \* the *ast.File given to the block instrumenter, with positions
    cblocks,     \* fileCover.blocks after the walk
    cpc,         \* position of the instrumenter
    acall,       \* the arguments of one call of addCounters made by the walk
    anew,        \* the statement list that call returned
    ablocks,     \* the blocks that call appended to fileCover.blocks
    apc,         \* position of that call
    pkgFiles,    \* pkg.Files: the files of the package given to rewritePkg
    dst,         \* the destination directory given to Rewrite ("" for the console)
    rpc,         \* position of the task of each file in rewriteFile
    fblocks,     \* fc.blocks of each file
    stderr,      \* the diagnostics written to os.Stderr, in order
    woutput,     \* what each task wrote to its output, in order
    errs,        \* the channel errs of rewritePkg: the values sent and not yet received
    stdoutLock,  \* the holder of stdoutLock (0 when free)
    rret,        \* what rewriteFile returned for each file ("none" while it runs)
    firstErr,    \* firstErr of rewritePkg
    nrecv,       \* the loop index of rewritePkg's receive loop
    console,     \* what the tasks wrote to os.Stdout, in order, with the file of each write
    gcall,       \* the call of the go statement, as rewritten by addGoFunc
    gorig,       \* that call as it was written
    genv,        \* the variables of the spawning task
    gstack,      \* the operands the spawning task has evaluated so far
    gchild,      \* the new task: its function value and arguments, its position
    glog,        \* the events of the run, in order
    gpc,         \* position of the spawning task
    opkgs,       \* prog.InitialPackages(): the files of each package given to Rewrite
    odst,        \* the destination directory given to Rewrite ("" for the console)
    ounit,       \* the task of each file: its position and what rewriteFile returned
    opkg,        \* the task of each package: its channel errs and its receive loop
    otop,        \* Rewrite: its channel errs, its receive loop, what it returned
    ocreated,    \* the destination files created, in order, with the task of each
    pprofs,      \* profs: the cover profiles given to ParseProfile
    pidx,        \* index of the range loop of ParseProfile over profs
    pprofile,    \* profile: the *Profile under construction
    pcalls,      \* the calls of findFile and findFuncs made, in order
    pret,        \* what ParseProfile returned
    ppc          \* position of ParseProfile in the loop body

trimVars == <<tree, origTree, stmt, origStmt, out, tpc, onceTree>>

mainVars == <<profFiles, fidx, outputDir, created, stdout, retErr>>

coverVars == <<cfile, cblocks, cpc, acall, anew, ablocks, apc>>

rewriteVars ==
    <<pkgFiles, dst, rpc, fblocks, stderr, woutput, errs, stdoutLock, rret, firstErr, nrecv,
      console>>

goVars == <<gcall, gorig, genv, gstack, gchild, glog, gpc>>

orchVars == <<opkgs, odst, ounit, opkg, otop, ocreated>>

parseVars == <<pprofs, pidx, pprofile, pcalls, pret, ppc>>

\* rewriteVars without the lock and the console, which Rewrite shares with
\* the tasks of every package.
rewriteRest == <<pkgFiles, dst, rpc, fblocks, stderr, woutput, errs, rret, firstErr, nrecv>>

buildVars == <<coverVars, rewriteVars, goVars, orchVars>>

corrVars == <<profBlocks, allFuncs, allStmts, funcs, stmts, blocks, i, Funcs, Stmts, pc>>

\* The absent node: a nil ast.Node, ast.Stmt or ast.Expr.
Nil == [kind |-> "nil"]

\* The trimmer does not run during ParseProfile.
TrimIdle ==
    /\ tree = Nil
    /\ origTree = Nil
    /\ stmt = Nil
    /\ origStmt = Nil
    /\ out = <<>>
    /\ tpc = "idle"
    /\ onceTree = Nil

\* parseProfile does not run.
MainIdle ==
    /\ profFiles = <<>>
    /\ fidx = 0
    /\ outputDir = ""
    /\ created = <<>>
    /\ stdout = <<>>
    /\ retErr = "none"

\* The instrumenter does not run.
CoverIdle ==
    /\ cfile = Nil
    /\ cblocks = <<>>
    /\ cpc = "idle"
    /\ acall = Nil
    /\ anew = <<>>
    /\ ablocks = <<>>
    /\ apc = "idle"

\* Rewrite does not run.
RewriteIdle ==
    /\ pkgFiles = <<>>
    /\ dst = ""
    /\ rpc = <<>>
    /\ fblocks = <<>>
    /\ stderr = <<>>
    /\ woutput = <<>>
    /\ errs = <<>>
    /\ stdoutLock = 0
    /\ rret = <<>>
    /\ firstErr = "nil"
    /\ nrecv = 0
    /\ console = <<>>

\* No go statement runs.
GoIdle ==
    /\ gcall = Nil
    /\ gorig = Nil
    /\ genv = <<>>
    /\ gstack = <<>>
    /\ gchild = Nil
    /\ glog = <<>>
    /\ gpc = "idle"

\* Rewrite is not called.
OrchIdle ==
    /\ opkgs = <<>>
    /\ odst = ""
    /\ ounit = <<>>
    /\ opkg = <<>>
    /\ otop = Nil
    /\ ocreated = <<>>

\* ParseProfile is not called.
ParseIdle ==
    /\ pprofs = <<>>
    /\ pidx = 0
    /\ pprofile = Nil
    /\ pcalls = <<>>
    /\ pret = Nil
    /\ ppc = "idle"

BuildIdle == CoverIdle /\ RewriteIdle /\ GoIdle /\ OrchIdle /\ ParseIdle

(***************************************************************************)
(* Records and extents.  A record is a cover.ProfileBlock; an extent is a  *)
(* funcExtent or stmtExtent, whose decl/stmt identity is its index in the  *)
(* list findFuncs returned.                                                *)
(***************************************************************************)
ProfileBlock ==
    [StartLine : Lines, StartCol : Cols, EndLine : Lines, EndCol : Cols, Count : Counts]

ExtentOn(L, C) == [startLine : L, startCol : C, endLine : L, endCol : C]

\* (l1, c1) <= (l2, c2) in (line, column) order
PosLE(l1, c1, l2, c2) == l1 < l2 \/ (l1 = l2 /\ c1 <= c2)

\* (l1, c1) < (l2, c2) in (line, column) order
PosLT(l1, c1, l2, c2) == l1 < l2 \/ (l1 = l2 /\ c1 < c2)

SeqsUpTo(S, n) == UNION {[1..k -> S] : k \in 0..n}

\* Records of a parsed cover profile: non-empty spans, sorted by start position.
BlockSeqs(n) ==
    {bs \in SeqsUpTo({b \in ProfileBlock :
                         PosLT(b.StartLine, b.StartCol, b.EndLine, b.EndCol)}, n) :
        \A k \in 1..(Len(bs) - 1) :
            PosLE(bs[k].StartLine, bs[k].StartCol, bs[k + 1].StartLine, bs[k + 1].StartCol)}

NonEmptyExtentOn(L, C) ==
    {e \in ExtentOn(L, C) : PosLT(e.startLine, e.startCol, e.endLine, e.endCol)}

NonEmptyExtent == NonEmptyExtentOn(Lines, Cols)

\* Statement extents in the order of ast.Walk: sorted by start position
\* (a statement starts no later than the statements nested in it).
StmtExtentSeqs(n) ==
    {es \in SeqsUpTo(NonEmptyExtent, n) :
        \A k \in 1..(Len(es) - 1) :
            PosLE(es[k].startLine, es[k].startCol, es[k + 1].startLine, es[k + 1].startCol)}

\* Function declarations are top-level: sorted and pairwise disjoint.
FuncExtentSeqs(n) ==
    {es \in SeqsUpTo(NonEmptyExtent, n) :
        \A k \in 1..(Len(es) - 1) :
            PosLE(es[k].endLine, es[k].endCol, es[k + 1].startLine, es[k + 1].startCol)}

\* Attach to each extent its decl/stmt identity: the index in the list.
WithIds(es) == [k \in 1..Len(es) |-> [id |-> k, ext |-> es[k]]]

(***************************************************************************)
(* The two tests of the inner loop body, parse.go:48 and parse.go:54       *)
(* (the same tests at parse.go:70 and parse.go:76).                        *)
(***************************************************************************)
PastEndMutOffByOne(b, e) ==
    b.StartLine > e.endLine \/ (b.StartLine = e.endLine /\ b.StartCol > e.endCol)

PastEnd(b, e) ==
    b.StartLine > e.endLine \/ (b.StartLine = e.endLine /\ b.StartCol >= e.endCol)

BeforeBeginning(b, e) ==
    b.EndLine < e.startLine \/ (b.EndLine = e.startLine /\ b.EndCol <= e.startCol)

\* parse.go:58-60 and parse.go:80-82: if b.Count > 0 { profile.X[key] = true }
MarkIfCountedMutAlways(reached, id, b) == reached \cup {id}

MarkIfCounted(reached, id, b) == IF b.Count > 0 THEN reached \cup {id} ELSE reached

DropFirst(s) == SubSeq(s, 2, Len(s))

Sliced(s, k) == SubSeq(s, k, Len(s))

(***************************************************************************)
(* ParseProfile, one file: the funcs sweep, then the stmts sweep.          *)
(***************************************************************************)
CorrInitWith(bs, fs, ss) ==
    /\ profBlocks = bs
    /\ allFuncs = WithIds(fs)
    /\ allStmts = WithIds(ss)
    /\ funcs = WithIds(fs)
    /\ stmts = WithIds(ss)
    /\ blocks = bs
    /\ i = 1
    /\ Funcs = {}
    /\ Stmts = {}
    /\ pc = "funcs"
    /\ TrimIdle
    /\ MainIdle
    /\ BuildIdle

\* Any position-sorted records with any position-sorted extents.
GeneralInit ==
    \E bs \in BlockSeqs(MaxBlocks), fs \in FuncExtentSeqs(MaxFuncs),
       ss \in StmtExtentSeqs(MaxStmts) :
        CorrInitWith(bs, fs, ss)

(***************************************************************************)
(* The synthetic round trip: N statements with pairwise disjoint, ordered  *)
(* extents and N pairwise disjoint records, record k spanning statement k, *)
(* with count > 0 exactly for the even 0-based indices.                    *)
(***************************************************************************)
Spans(b, e) ==
    /\ PosLE(b.startLine, b.startCol, e.startLine, e.startCol)
    /\ PosLE(e.endLine, e.endCol, b.endLine, b.endCol)

DisjointChains(n) ==
    {es \in [1..n -> NonEmptyExtentOn(Lines, RTCols)] :
        \A k \in 1..(n - 1) :
            PosLE(es[k].endLine, es[k].endCol, es[k + 1].startLine, es[k + 1].startCol)}

RTRecords(spans) ==
    [k \in 1..Len(spans) |->
        [StartLine |-> spans[k].startLine, StartCol |-> spans[k].startCol,
         EndLine |-> spans[k].endLine, EndCol |-> spans[k].endCol,
         Count |-> IF (k - 1) % 2 = 0 THEN 1 ELSE 0]]

\* The function declaration enclosing the statements, when there is one.
EnclosingFunc(ss) ==
    IF Len(ss) = 0 THEN <<>>
    ELSE <<[startLine |-> ss[1].startLine, startCol |-> ss[1].startCol,
            endLine |-> ss[Len(ss)].endLine, endCol |-> ss[Len(ss)].endCol]>>

RTInit ==
    \E n \in 0..MaxN :
        \E ss \in DisjointChains(n) :
            \E rs \in {r \in DisjointChains(n) : \A k \in 1..n : Spans(r[k], ss[k])} :
                CorrInitWith(RTRecords(rs), EnclosingFunc(ss), ss)

CorrInit == GeneralInit \/ RTInit

\* parse.go:45  for len(funcs) > 0 { f := funcs[0]; for i, b := range blocks {
FuncsTest ==
    /\ pc = "funcs"
    /\ IF Len(funcs) > 0
         THEN /\ pc' = "funcScan"
              /\ i' = 1
              /\ UNCHANGED blocks
         ELSE /\ pc' = "stmts"      \* parse.go:66 blocks = prof.Blocks
              /\ blocks' = profBlocks
              /\ i' = 1
    /\ UNCHANGED <<profBlocks, allFuncs, allStmts, funcs, stmts, Funcs, Stmts>>
    /\ UNCHANGED <<trimVars, mainVars, buildVars, parseVars>>

\* parse.go:48-53
FuncPast ==
    /\ pc = "funcScan"
    /\ i <= Len(blocks)
    /\ PastEnd(blocks[i], funcs[1].ext)
    /\ funcs' = DropFirst(funcs)
    /\ blocks' = Sliced(blocks, i)
    /\ pc' = "funcs"
    /\ i' = 1
    /\ UNCHANGED <<profBlocks, allFuncs, allStmts, stmts, Funcs, Stmts>>
    /\ UNCHANGED <<trimVars, mainVars, buildVars, parseVars>>

\* parse.go:54-57
FuncBefore ==
    /\ pc = "funcScan"
    /\ i <= Len(blocks)
    /\ ~PastEnd(blocks[i], funcs[1].ext)
    /\ BeforeBeginning(blocks[i], funcs[1].ext)
    /\ i' = i + 1
    /\ UNCHANGED <<profBlocks, allFuncs, allStmts, funcs, stmts, blocks, Funcs, Stmts, pc>>
    /\ UNCHANGED <<trimVars, mainVars, buildVars, parseVars>>

\* parse.go:58-62
FuncOverlap ==
    /\ pc = "funcScan"
    /\ i <= Len(blocks)
    /\ ~PastEnd(blocks[i], funcs[1].ext)
    /\ ~BeforeBeginning(blocks[i], funcs[1].ext)
    /\ Funcs' = MarkIfCounted(Funcs, funcs[1].id, blocks[i])
    /\ funcs' = DropFirst(funcs)
    /\ pc' = "funcs"
    /\ i' = 1
    /\ UNCHANGED <<profBlocks, allFuncs, allStmts, stmts, blocks, Stmts>>
    /\ UNCHANGED <<trimVars, mainVars, buildVars, parseVars>>

\* parse.go:47/63: the range loop ends without a break; the outer loop at
\* parse.go:45 tests len(funcs) again with funcs and blocks as they were.
FuncExhausted ==
    /\ pc = "funcScan"
    /\ i > Len(blocks)
    /\ pc' = "funcs"
    /\ i' = 1
    /\ UNCHANGED <<profBlocks, allFuncs, allStmts, funcs, stmts, blocks, Funcs, Stmts>>
    /\ UNCHANGED <<trimVars, mainVars, buildVars, parseVars>>

\* parse.go:67  for len(stmts) > 0 { s := stmts[0]; for i, b := range blocks {
StmtsTest ==
    /\ pc = "stmts"
    /\ IF Len(stmts) > 0
         THEN /\ pc' = "stmtScan"
              /\ i' = 1
         ELSE /\ pc' = "done"       \* parse.go:89 return profile, nil
              /\ i' = 1
    /\ UNCHANGED <<profBlocks, allFuncs, allStmts, funcs, stmts, blocks, Funcs, Stmts>>
    /\ UNCHANGED <<trimVars, mainVars, buildVars, parseVars>>

\* parse.go:70-75
StmtPast ==
    /\ pc = "stmtScan"
    /\ i <= Len(blocks)
    /\ PastEnd(blocks[i], stmts[1].ext)
    /\ stmts' = DropFirst(stmts)
    /\ blocks' = Sliced(blocks, i)
    /\ pc' = "stmts"
    /\ i' = 1
    /\ UNCHANGED <<profBlocks, allFuncs, allStmts, funcs, Funcs, Stmts>>
    /\ UNCHANGED <<trimVars, mainVars, buildVars, parseVars>>

\* parse.go:76-79
StmtBefore ==
    /\ pc = "stmtScan"
    /\ i <= Len(blocks)
    /\ ~PastEnd(blocks[i], stmts[1].ext)
    /\ BeforeBeginning(blocks[i], stmts[1].ext)
    /\ i' = i + 1
    /\ UNCHANGED <<profBlocks, allFuncs, allStmts, funcs, stmts, blocks, Funcs, Stmts, pc>>
    /\ UNCHANGED <<trimVars, mainVars, buildVars, parseVars>>

\* parse.go:80-84
StmtOverlap ==
    /\ pc = "stmtScan"
    /\ i <= Len(blocks)
    /\ ~PastEnd(blocks[i], stmts[1].ext)
    /\ ~BeforeBeginning(blocks[i], stmts[1].ext)
    /\ Stmts' = MarkIfCounted(Stmts, stmts[1].id, blocks[i])
    /\ stmts' = DropFirst(stmts)
    /\ pc' = "stmts"
    /\ i' = 1
    /\ UNCHANGED <<profBlocks, allFuncs, allStmts, funcs, blocks, Funcs>>
    /\ UNCHANGED <<trimVars, mainVars, buildVars, parseVars>>

\* parse.go:69/85: the range loop ends without a break.
StmtExhausted ==
    /\ pc = "stmtScan"
    /\ i > Len(blocks)
    /\ pc' = "stmts"
    /\ i' = 1
    /\ UNCHANGED <<profBlocks, allFuncs, allStmts, funcs, stmts, blocks, Funcs, Stmts>>
    /\ UNCHANGED <<trimVars, mainVars, buildVars, parseVars>>

CorrNext ==
    \/ FuncsTest
    \/ FuncPast
    \/ FuncBefore
    \/ FuncOverlap
    \/ FuncExhausted
    \/ StmtsTest
    \/ StmtPast
    \/ StmtBefore
    \/ StmtOverlap
    \/ StmtExhausted

vars == <<corrVars, trimVars, mainVars, buildVars, parseVars>>

SpecCorr == CorrInit /\ [][CorrNext]_vars

(***************************************************************************)
(* Part II: the syntax tree.                                               *)
(*                                                                         *)
(* Expressions: identifiers, calls and binary expressions.  Statements:    *)
(* expression, assignment and inc/dec statements (simple statements),      *)
(* blocks, range loops, for loops, conditionals, select statements with    *)
(* their communication clauses, and labeled statements.  Every statement   *)
(* carries reached, the value of Profile.Stmts for that node; every        *)
(* function declaration carries reached, the value of Profile.Funcs.  A    *)
(* node that Trim creates is in no map: its reached is FALSE.              *)
(***************************************************************************)
Ident(n) == [kind |-> "ident", Name |-> n]

Call(f) == [kind |-> "call", Fun |-> f]

Binary(x, y) == [kind |-> "binary", X |-> x, Y |-> y]

ExprStmt(r, x) == [kind |-> "expr", reached |-> r, X |-> x]

AssignStmt(x) == [kind |-> "assign", reached |-> FALSE, X |-> x]

IncDecStmt == [kind |-> "incdec", reached |-> FALSE, X |-> Ident("i")]

BlockStmt(r, l) == [kind |-> "block", reached |-> r, List |-> l]

RangeStmt(r, x, body) == [kind |-> "range", reached |-> r, X |-> x, Body |-> body]

ForStmt(r, init, cond, post, body) ==
    [kind |-> "for", reached |-> r, Init |-> init, Cond |-> cond, Post |-> post,
     Body |-> body]

IfStmt(r, init, cond, body, els) ==
    [kind |-> "if", reached |-> r, Init |-> init, Cond |-> cond, Body |-> body,
     Else |-> els]

\* A communication clause: Comm is the send or receive statement (Nil for
\* default), Body the list of its statements.
CommClause(r, comm, body) == [kind |-> "comm", reached |-> r, Comm |-> comm, Body |-> body]

\* A select statement; Body is the block of its communication clauses.
SelectStmt(r, body) == [kind |-> "select", reached |-> r, Body |-> body]

LabeledStmt(r, label, s) == [kind |-> "labeled", reached |-> r, Label |-> label, Stmt |-> s]

GenDecl(n) == [kind |-> "gen", Name |-> n]

\* A case clause of a switch: List holds its expressions, Body its statements.
CaseClause(r, list, body) == [kind |-> "case", reached |-> r, List |-> list, Body |-> body]

\* A switch statement; Body is the block of its case clauses.
SwitchStmt(r, tag, body) == [kind |-> "switch", reached |-> r, Tag |-> tag, Body |-> body]

BranchStmt(r, tok) == [kind |-> "branch", reached |-> r, Tok |-> tok]

ReturnStmt(r, x) == [kind |-> "return", reached |-> r, X |-> x]

GoStmt(r, call) == [kind |-> "go", reached |-> r, Call |-> call]

DeclStmt(r, n) == [kind |-> "decl", reached |-> r, Decl |-> GenDecl(n)]

FuncDecl(n, r, body) == [kind |-> "func", Name |-> n, reached |-> r, Body |-> body]

File(decls) == [kind |-> "file", Decls |-> decls]

\* trim.go:78, 96, 115: &ast.ExprStmt{call}, a new statement node
NewExprStmt(call) == ExprStmt(FALSE, call)

(***************************************************************************)
(* trim.go:148-153 visited                                                 *)
(***************************************************************************)
visited(s) == IF s.kind = "nil" THEN FALSE ELSE s.reached

(***************************************************************************)
(* trim.go:158-176 findCall: the first *ast.CallExpr that ast.Inspect      *)
(* meets, in depth-first order, in the tree rooted at node; Nil if none.   *)
(***************************************************************************)
RECURSIVE findCall(_)
findCallMutLast(node) ==
    CASE node.kind = "nil" -> Nil
      [] node.kind = "call" -> node
      [] node.kind = "binary" ->
            IF findCall(node.Y) # Nil THEN findCall(node.Y) ELSE findCall(node.X)
      [] node.kind \in {"expr", "assign", "incdec"} -> findCall(node.X)
      [] OTHER -> Nil

findCall(node) ==
    CASE node.kind = "nil" -> Nil
      [] node.kind = "call" -> node
      [] node.kind = "binary" ->
            IF findCall(node.X) # Nil THEN findCall(node.X) ELSE findCall(node.Y)
      [] node.kind \in {"expr", "assign", "incdec"} -> findCall(node.X)
      [] OTHER -> Nil

\* trim.go:93-99 and trim.go:113-117: one new expression statement per
\* non-nil call, in the order of nodes.
RECURSIVE CallStmts(_)
CallStmtsMutReversed(nodes) ==
    IF nodes = <<>> THEN <<>>
    ELSE CallStmts(Tail(nodes)) \o
         (IF Head(nodes) # Nil THEN <<NewExprStmt(Head(nodes))>> ELSE <<>>)

CallStmts(nodes) ==
    IF nodes = <<>> THEN <<>>
    ELSE (IF Head(nodes) # Nil THEN <<NewExprStmt(Head(nodes))>> ELSE <<>>) \o
         CallStmts(Tail(nodes))

\* trim.go:71-80
replaceRange(s) ==
    IF visited(s.Body) THEN <<s>> ELSE CallStmts(<<findCall(s.X)>>)

\* trim.go:82-99
replaceForMutNoPost(s) ==
    IF visited(s.Body) THEN <<s>>
    ELSE CallStmts(<<findCall(s.Init), findCall(s.Cond)>>)

replaceFor(s) ==
    IF visited(s.Body) THEN <<s>>
    ELSE CallStmts(<<findCall(s.Init), findCall(s.Cond), findCall(s.Post)>>)

\* trim.go:106-117: the if body was not taken: the calls of init and cond
pulledOutMutNone(s) == <<>>

pulledOut(s) == CallStmts(<<findCall(s.Init), findCall(s.Cond)>>)

\* trim.go:124-132: the if body was taken
keepIfMutKeepElse(s) == <<s>>

keepIfMutAlsoPull(s) ==
    pulledOut(s) \o <<IF ~visited(s.Else) THEN [s EXCEPT !.Else = Nil] ELSE s>>

keepIf(s) == <<IF ~visited(s.Else) THEN [s EXCEPT !.Else = Nil] ELSE s>>

\* trim.go:134-142: the clauses of the select that were visited, in order;
\* the select itself, its clause list rewritten in place, is returned.
keepClauseMutAll(c) == TRUE

keepClause(c) == visited(c)

replaceSelect(s) == <<[s EXCEPT !.Body.List = SelectSeq(s.Body.List, keepClause)]>>

(***************************************************************************)
(* trim.go:62-144 replaceStmt: the statements that replace stmt.           *)
(***************************************************************************)
RECURSIVE replaceStmt(_)
\* A statement that is not in Profile.Stmts is dropped.
replaceStmtMutDropUnreached(s) == IF s.kind = "nil" \/ ~s.reached THEN <<>> ELSE <<s>>

replaceStmt(s) ==
    CASE s.kind = "nil" -> <<>>
      [] s.kind = "range" -> replaceRange(s)
      [] s.kind = "for" -> replaceFor(s)
      [] s.kind = "if" ->
            IF ~visited(s.Body)
              THEN pulledOut(s) \o
                   (IF visited(s.Else) THEN replaceStmt(s.Else) ELSE <<>>)
              ELSE keepIf(s)
      [] s.kind = "select" -> replaceSelect(s)
      [] OTHER -> <<s>>

\* The node stmt after replaceStmt(stmt): trim.go:128 clears Else in place,
\* trim.go:121 recurs into the else branch, trim.go:141 rewrites the
\* clause list of a select in place.
RECURSIVE afterReplace(_)
afterReplace(s) ==
    CASE s.kind = "if" ->
            IF visited(s.Body)
              THEN IF ~visited(s.Else) THEN [s EXCEPT !.Else = Nil] ELSE s
              ELSE IF visited(s.Else) THEN [s EXCEPT !.Else = afterReplace(s.Else)] ELSE s
      [] s.kind = "select" -> replaceSelect(s)[1]
      [] OTHER -> s

\* trim.go:46-53: the list of a block, rebuilt from replaceStmt of each member
RECURSIVE replaceList(_)
replaceList(list) ==
    IF list = <<>> THEN <<>>
    ELSE replaceStmt(Head(list)) \o replaceList(Tail(list))

\* trim.go:31 the declarations Visit keeps
keepDeclMutAllFuncs(d) == d.kind = "func"

keepDecl(d) == d.kind = "func" /\ d.reached

\* trim.go:28-35
filterDecls(decls) == SelectSeq(decls, keepDecl)

(***************************************************************************)
(* ast.Walk(&trimVisitor{p}, node), trim.go:12 and trim.go:24-55: Visit    *)
(* rewrites the declarations of a file and the list of a block or of a     *)
(* communication clause, then the walk descends into the children as Visit *)
(* left them.  For a select or a labeled statement Visit rewrites nothing; *)
(* the walk descends into the clause block or the wrapped statement.       *)
(***************************************************************************)
RECURSIVE Walk(_)
walkBodyMutSkip(n) == n

walkBody(n) == [n EXCEPT !.Body = Walk(n.Body)]

Walk(n) ==
    CASE n.kind = "file" ->
            LET kept == filterDecls(n.Decls)
            IN  [n EXCEPT !.Decls = [k \in 1..Len(kept) |-> Walk(kept[k])]]
      [] n.kind = "func" -> walkBody(n)
      [] n.kind = "block" ->
            LET repl == replaceList(n.List)
            IN  [n EXCEPT !.List = [k \in 1..Len(repl) |-> Walk(repl[k])]]
      [] n.kind = "range" -> walkBody(n)
      [] n.kind = "for" -> walkBody(n)
      [] n.kind = "if" -> [n EXCEPT !.Body = Walk(n.Body), !.Else = Walk(n.Else)]
      [] n.kind = "select" -> walkBody(n)
      [] n.kind = "comm" ->
            LET repl == replaceList(n.Body)
            IN  [n EXCEPT !.Body = [k \in 1..Len(repl) |-> Walk(repl[k])]]
      [] n.kind = "labeled" -> [n EXCEPT !.Stmt = Walk(n.Stmt)]
      [] n.kind = "switch" -> walkBody(n)
      [] n.kind = "case" ->
            LET repl == replaceList(n.Body)
            IN  [n EXCEPT !.Body = [k \in 1..Len(repl) |-> Walk(repl[k])]]
      [] OTHER -> n

\* trim.go:9-17 Profile.Trim
Trim(node) == Walk(node)

(***************************************************************************)
(* The inputs of the trimmer.                                              *)
(***************************************************************************)
LeafA == ExprStmt(TRUE, Call("A"))

LeafB == ExprStmt(TRUE, Call("B"))

\* Loop and conditional headers.
CondExprs ==
    {Ident("x"), Call("f"), Binary(Ident("x"), Call("g")), Binary(Call("f"), Call("g"))}

InitStmts == {Nil, AssignStmt(Ident("x")), AssignStmt(Call("a"))}

PostStmts == {Nil, IncDecStmt, ExprStmt(FALSE, Call("p"))}

\* Statements given to replaceStmt directly.
ProbeBodies == {BlockStmt(r, <<LeafA>>) : r \in BOOLEAN}

ElseBlocks == {BlockStmt(r, <<LeafB>>) : r \in BOOLEAN}

RECURSIVE ProbeIfs(_)
ProbeIfs(n) ==
    {IfStmt(TRUE, init, cond, body, els) :
        init \in InitStmts, cond \in CondExprs, body \in ProbeBodies,
        els \in {Nil} \cup ElseBlocks \cup
                (IF n = 0 THEN {}
                 ELSE {[e EXCEPT !.reached = r] : e \in ProbeIfs(n - 1), r \in BOOLEAN})}

ProbeFors ==
    {ForStmt(TRUE, init, cond, post, body) :
        init \in InitStmts, cond \in {Nil} \cup CondExprs, post \in PostStmts,
        body \in ProbeBodies}

ProbeRanges == {RangeStmt(TRUE, x, body) : x \in CondExprs, body \in ProbeBodies}

ProbeOthers ==
    {ExprStmt(r, Call("A")) : r \in BOOLEAN} \cup ProbeBodies \cup {AssignStmt(Call("a"))}

\* Select statements of up to MaxClauses clauses; a clause body may hold a
\* loop that was never entered.
ClauseBodies ==
    {<<LeafA>>,
     <<ForStmt(TRUE, Nil, Call("f"), Nil, BlockStmt(FALSE, <<LeafB>>))>>}

CommStmts == {Nil, ExprStmt(TRUE, Ident("c"))}

Clauses == {CommClause(r, c, b) : r \in BOOLEAN, c \in CommStmts, b \in ClauseBodies}

ProbeSelects ==
    {SelectStmt(TRUE, BlockStmt(TRUE, cs)) :
        cs \in {x \in SeqsUpTo(Clauses, MaxClauses) :
                   \A j, k \in 1..Len(x) : j < k => x[j].Comm # x[k].Comm \/ x[j].Comm # Nil}}

\* Labeled loops, ranges, conditionals and selects.
ProbeLabeled ==
    {LabeledStmt(r, "L", s) :
        r \in BOOLEAN,
        s \in {x \in ProbeFors \cup ProbeRanges : x.kind = "range" \/ x.Init = Nil} \cup
              ProbeIfs(0) \cup {x \in ProbeSelects : Len(x.Body.List) = MaxClauses}}

\* Switch statements of up to MaxClauses clauses, reached or not.
ProbeSwitches ==
    {SwitchStmt(r, tag, BlockStmt(r, cs)) :
        r \in BOOLEAN, tag \in {Nil, Call("f")},
        cs \in SeqsUpTo({CaseClause(c, <<Ident("x")>>, <<LeafA>>) : c \in BOOLEAN}, MaxClauses)}

\* Branch, return, go and declaration statements, labeled plain statements.
ProbeSimple ==
    {BranchStmt(r, tok) : r \in BOOLEAN, tok \in {"break", "continue", "goto"}} \cup
    {ReturnStmt(r, x) : r \in BOOLEAN, x \in {Nil, Call("f")}} \cup
    {GoStmt(r, Call("f")) : r \in BOOLEAN} \cup
    {DeclStmt(r, "v") : r \in BOOLEAN} \cup
    {LabeledStmt(r, "L", ExprStmt(c, Call("A"))) : r \in BOOLEAN, c \in BOOLEAN}

ProbeStmts ==
    ProbeIfs(MaxElseIf) \cup ProbeFors \cup ProbeRanges \cup ProbeOthers \cup
    ProbeSelects \cup ProbeLabeled \cup ProbeSwitches \cup ProbeSimple

\* Statements of function bodies, nested to depth d.
RECURSIVE DeepStmts(_)
RECURSIVE DeepBlocks(_)
RECURSIVE DeepIfs(_)
DeepBlocks(d) ==
    {BlockStmt(r, l) : r \in BOOLEAN, l \in {<<>>} \cup {<<s>> : s \in DeepStmts(d)}}

DeepIfs(d) ==
    IF d = 0 THEN {}
    ELSE {IfStmt(TRUE, Nil, Call("f"), b, Nil) : b \in DeepBlocks(d - 1)} \cup
         {IfStmt(TRUE, AssignStmt(Call("a")), Call("f"), b, e) :
             b \in DeepBlocks(0),
             e \in DeepBlocks(d - 1) \cup
                   {[x EXCEPT !.reached = r] : x \in DeepIfs(d - 1), r \in BOOLEAN}}

DeepStmts(d) ==
    IF d = 0 THEN {LeafA}
    ELSE {LeafA} \cup
         {RangeStmt(TRUE, Call("f"), b) : b \in DeepBlocks(d - 1)} \cup
         {ForStmt(TRUE, AssignStmt(Call("a")), Call("f"), ExprStmt(FALSE, Call("p")), b) :
             b \in DeepBlocks(d - 1)} \cup
         DeepIfs(d)

DeepBodies(d) ==
    {BlockStmt(TRUE, l) :
        l \in {<<>>} \cup {<<s>> : s \in DeepStmts(d)} \cup
              {<<s, LeafB>> : s \in DeepStmts(d)} \cup {<<LeafB, s>> : s \in DeepStmts(d)}}

\* A file with one reached function, its body nested to MaxDepth.
DeepFiles == {File(<<FuncDecl("F", TRUE, b)>>) : b \in DeepBodies(MaxDepth)}

\* Files with up to MaxDecls declarations of distinct names.
GenDecls == {GenDecl(n) : n \in {"T", "V"}}

WideFuncDecls ==
    {FuncDecl(n, r, b) : n \in {"F", "G"}, r \in BOOLEAN, b \in DeepBodies(0)}

WideFiles ==
    {File(ds) : ds \in {x \in SeqsUpTo(GenDecls \cup WideFuncDecls, MaxDecls) :
                           \A j, k \in 1..Len(x) : j # k => x[j].Name # x[k].Name}}

\* A file with one reached function whose body holds a select or a labeled
\* statement.
MarkedFiles ==
    {File(<<FuncDecl("F", TRUE, BlockStmt(TRUE, l))>>) :
        l \in {<<s>> : s \in ProbeSelects \cup ProbeLabeled} \cup
              {<<LeafB, s>> : s \in ProbeSelects}}

\* The sweep does not run during Trim.
CorrIdle ==
    /\ profBlocks = <<>>
    /\ allFuncs = <<>>
    /\ allStmts = <<>>
    /\ funcs = <<>>
    /\ stmts = <<>>
    /\ blocks = <<>>
    /\ i = 1
    /\ Funcs = {}
    /\ Stmts = {}
    /\ pc = "idle"

\* Trim is about to run on a parsed file.
FileInit ==
    /\ tree \in DeepFiles \cup WideFiles \cup MarkedFiles
    /\ origTree = tree
    /\ onceTree = Nil
    /\ stmt = Nil
    /\ origStmt = Nil
    /\ out = <<>>
    /\ tpc = "file"

\* replaceStmt is about to run on a member of a statement list.
StmtInit ==
    /\ tree = Nil
    /\ origTree = Nil
    /\ onceTree = Nil
    /\ stmt \in ProbeStmts
    /\ origStmt = stmt
    /\ out = <<>>
    /\ tpc = "stmt"

TrimInit == CorrIdle /\ MainIdle /\ BuildIdle /\ (FileInit \/ StmtInit)

\* cmd/discover/main.go:111 prof.Trim(f)
TrimFile ==
    /\ tpc = "file"
    /\ tree' = Trim(tree)
    /\ onceTree' = Trim(tree)
    /\ tpc' = "trimmed"
    /\ UNCHANGED <<origTree, stmt, origStmt, out>>
    /\ UNCHANGED <<corrVars, mainVars, buildVars, parseVars>>

\* trim.go:9 Trim called again, with the same Profile, on the tree it left.
TrimAgain ==
    /\ tpc = "trimmed"
    /\ tree' = Trim(tree)
    /\ tpc' = "retrimmed"
    /\ UNCHANGED <<origTree, onceTree, stmt, origStmt, out>>
    /\ UNCHANGED <<corrVars, mainVars, buildVars, parseVars>>

\* trim.go:49 v.replaceStmt(stmt)
ReplaceStmt ==
    /\ tpc = "stmt"
    /\ out' = replaceStmt(stmt)
    /\ stmt' = afterReplace(stmt)
    /\ tpc' = "replaced"
    /\ UNCHANGED <<tree, origTree, onceTree, origStmt>>
    /\ UNCHANGED <<corrVars, mainVars, buildVars, parseVars>>

TrimNext ==
    \/ TrimFile
    \/ TrimAgain
    \/ ReplaceStmt

SpecTrim == TrimInit /\ [][TrimNext]_vars

(***************************************************************************)
(* cmd/discover/main.go:99-129 parseProfile: the loop over prof.Files.     *)
(* Each file is trimmed; a file left without declarations is passed over,  *)
(* any other is written by outputFile, to a file of its own under the      *)
(* -output directory or, without the flag, to the console.                 *)
(***************************************************************************)
\* Files of up to two declarations with empty function bodies.
MainDecls ==
    {GenDecl("T")} \cup {FuncDecl(n, r, BlockStmt(r, <<>>)) : n \in {"F", "G"}, r \in BOOLEAN}

MainFiles ==
    {File(ds) : ds \in {x \in SeqsUpTo(MainDecls, 2) :
                           \A j, k \in 1..Len(x) : j # k => x[j].Name # x[k].Name}}

\* The outcomes of outputFile writing under the -output directory:
\* os.MkdirAll fails, os.Create fails, format.Node fails, or all succeed.
FileOutcomes == {"mkdir", "create", "format", "ok"}

MainInit ==
    /\ CorrIdle
    /\ BuildIdle
    /\ profFiles \in SeqsUpTo(MainFiles, MaxFiles)
    /\ fidx = 0
    /\ outputDir \in {"", "out"}
    /\ created = <<>>
    /\ stdout = <<>>
    /\ retErr = "none"
    /\ tree = Nil
    /\ origTree = Nil
    /\ onceTree = Nil
    /\ stmt = Nil
    /\ origStmt = Nil
    /\ out = <<>>
    /\ tpc = "loop"

\* main.go:110 for _, f := range prof.Files; main.go:128 return nil
NextFile ==
    /\ tpc = "loop"
    /\ IF fidx < Len(profFiles)
         THEN /\ fidx' = fidx + 1
              /\ tree' = profFiles[fidx + 1]
              /\ origTree' = profFiles[fidx + 1]
              /\ tpc' = "file"
         ELSE /\ tpc' = "returned"
              /\ UNCHANGED <<fidx, tree, origTree>>
    /\ UNCHANGED <<profFiles, outputDir, created, stdout, retErr>>
    /\ UNCHANGED <<onceTree, stmt, origStmt, out>>
    /\ UNCHANGED <<corrVars, buildVars, parseVars>>

\* main.go:114 len(f.Decls) == 0
noDeclsLeftMutNever(f) == FALSE

noDeclsLeft(f) == Len(f.Decls) = 0

\* main.go:113-116: all declarations were filtered out: continue
SkipFile ==
    /\ tpc = "trimmed"
    /\ noDeclsLeft(tree)
    /\ tpc' = "loop"
    /\ UNCHANGED <<tree, origTree, onceTree, stmt, origStmt, out>>
    /\ UNCHANGED <<corrVars, mainVars, buildVars, parseVars>>

\* main.go:119-122: prof.ImportPaths[f] is empty: return the error
NoImportPath ==
    /\ tpc = "trimmed"
    /\ ~noDeclsLeft(tree)
    /\ retErr' = "No import path found"
    /\ tpc' = "returned"
    /\ UNCHANGED <<tree, origTree, onceTree, stmt, origStmt, out>>
    /\ UNCHANGED <<profFiles, fidx, outputDir, created, stdout>>
    /\ UNCHANGED <<corrVars, buildVars, parseVars>>

\* main.go:124 and main.go:132-147: outputFile with the -output flag set
OutputToFile ==
    /\ tpc = "trimmed"
    /\ ~noDeclsLeft(tree)
    /\ outputDir # ""
    /\ \E outcome \in FileOutcomes :
          /\ created' = IF outcome \in {"format", "ok"}
                           THEN Append(created, [file |-> fidx, content |->
                                   IF outcome = "ok" THEN tree ELSE Nil])
                           ELSE created
          /\ retErr' = IF outcome = "ok" THEN retErr ELSE outcome
          /\ tpc' = IF outcome = "ok" THEN "loop" ELSE "returned"
    /\ UNCHANGED <<tree, origTree, onceTree, stmt, origStmt, out>>
    /\ UNCHANGED <<profFiles, fidx, outputDir, stdout>>
    /\ UNCHANGED <<corrVars, buildVars, parseVars>>

\* main.go:124 and main.go:149-153: outputFile without the flag: the header
\* of the file, the formatted tree, two newlines
OutputToStdout ==
    /\ tpc = "trimmed"
    /\ ~noDeclsLeft(tree)
    /\ outputDir = ""
    /\ stdout' = stdout \o <<[file |-> fidx, part |-> "header"],
                              [file |-> fidx, part |-> "content", content |-> tree],
                              [file |-> fidx, part |-> "newlines"]>>
    /\ tpc' = "loop"
    /\ UNCHANGED <<tree, origTree, onceTree, stmt, origStmt, out>>
    /\ UNCHANGED <<profFiles, fidx, outputDir, created, retErr>>
    /\ UNCHANGED <<corrVars, buildVars, parseVars>>

MainNext ==
    \/ NextFile
    \/ TrimFile
    \/ SkipFile
    \/ NoImportPath
    \/ OutputToFile
    \/ OutputToStdout

SpecMain == MainInit /\ [][MainNext]_vars

(***************************************************************************)
(* Part III: the block instrumenter, build/cover.go.                       *)
(*                                                                         *)
(* A file is first a shape (syntax without positions); the parser lays it  *)
(* out: every token is one byte wide, statements of a list are one         *)
(* separator apart, and token.Pos counts from 1 (0 is token.NoPos).  The   *)
(* statements are expression statements (with or without a function        *)
(* literal), branch statements, blocks, conditionals, for and range loops, *)
(* switch and select statements with their clauses, labeled statements.    *)
(***************************************************************************)
MaxNested == 1   \* statements of a nested statement list
MaxCases == 2    \* clauses of a switch or select statement

ShIdent == [kind |-> "ident"]

\* A call of a function literal: func() { ... }()
ShFuncLit(body) == [kind |-> "funclit", Body |-> body]

ShExpr(x) == [kind |-> "expr", X |-> x]

ShBranch == [kind |-> "branch"]

ShBlock(l) == [kind |-> "block", List |-> l]

ShIf(init, cond, body, els) ==
    [kind |-> "if", Init |-> init, Cond |-> cond, Body |-> body, Else |-> els]

ShFor(cond, body) ==
    [kind |-> "for", Init |-> Nil, Cond |-> cond, Post |-> Nil, Body |-> body]

ShRange(x, body) == [kind |-> "range", X |-> x, Body |-> body]

\* A case clause: X is its expression (Nil for default), Body its statements.
ShCase(x, body) == [kind |-> "case", X |-> x, Body |-> body]

\* A communication clause: Comm is its statement (Nil for default).
ShComm(comm, body) == [kind |-> "comm", Comm |-> comm, Body |-> body]

ShSwitch(tag, clauses) ==
    [kind |-> "switch", Init |-> Nil, Tag |-> tag, Body |-> ShBlock(clauses)]

ShSelect(clauses) == [kind |-> "select", Body |-> ShBlock(clauses)]

ShLabeled(s) == [kind |-> "labeled", Stmt |-> s]

ShFuncDecl(body) == [kind |-> "funcdecl", Body |-> body]

ShFile(decls) == [kind |-> "file", Decls |-> decls]

\* n.Pos() and n.End() of a laid-out node; a block starts at its opening
\* brace and ends after its closing brace.
PosOf(n) == IF n.kind = "block" THEN n.Lbrace ELSE n.Pos

EndOf(n) == IF n.kind = "block" THEN n.Rbrace + 1 ELSE n.End

EndOr(n, p) == IF n.kind = "nil" THEN p ELSE EndOf(n)

(***************************************************************************)
(* The layout of a shape from position p, as parser.ParseFile gives it.    *)
(***************************************************************************)
RECURSIVE Lay(_, _)
RECURSIVE LayList(_, _)
LayList(list, p) ==
    IF list = <<>> THEN <<>>
    ELSE LET h == Lay(Head(list), p)
         IN  <<h>> \o LayList(Tail(list), EndOf(h) + 1)

EndOfList(l, p) == IF l = <<>> THEN p ELSE EndOf(l[Len(l)])

Lay(n, p) ==
    CASE n.kind = "nil" -> Nil
      [] n.kind = "ident" -> [kind |-> "ident", Pos |-> p, End |-> p + 1]
      [] n.kind = "funclit" ->
            LET b == Lay(n.Body, p + 1)
            IN  [kind |-> "funclit", Pos |-> p, Body |-> b, End |-> EndOf(b) + 1]
      [] n.kind = "expr" ->
            LET x == Lay(n.X, p)
            IN  [kind |-> "expr", Pos |-> p, X |-> x, End |-> EndOf(x)]
      [] n.kind = "branch" -> [kind |-> "branch", Pos |-> p, End |-> p + 1]
      [] n.kind = "block" ->
            LET l == LayList(n.List, p + 1)
            IN  [kind |-> "block", Lbrace |-> p, List |-> l, Rbrace |-> EndOfList(l, p + 1)]
      [] n.kind = "if" ->
            LET init == Lay(n.Init, p + 1)
                cond == Lay(n.Cond, IF n.Init.kind = "nil" THEN p + 1 ELSE EndOf(init) + 1)
                body == Lay(n.Body, EndOf(cond))
                els == Lay(n.Else, EndOf(body) + 1)
            IN  [kind |-> "if", Pos |-> p, Init |-> init, Cond |-> cond, Body |-> body,
                 Else |-> els, End |-> EndOr(els, EndOf(body))]
      [] n.kind = "for" ->
            LET cond == Lay(n.Cond, p + 1)
                body == Lay(n.Body, EndOr(cond, p + 1))
            IN  [kind |-> "for", Pos |-> p, Init |-> Nil, Cond |-> cond, Post |-> Nil,
                 Body |-> body, End |-> EndOf(body)]
      [] n.kind = "range" ->
            LET x == Lay(n.X, p + 1)
                body == Lay(n.Body, EndOf(x))
            IN  [kind |-> "range", Pos |-> p, X |-> x, Body |-> body, End |-> EndOf(body)]
      [] n.kind = "switch" ->
            LET tag == Lay(n.Tag, p + 1)
                body == Lay(n.Body, EndOr(tag, p + 1))
            IN  [kind |-> "switch", Pos |-> p, Init |-> Nil, Tag |-> tag, Body |-> body,
                 End |-> EndOf(body)]
      [] n.kind = "select" ->
            LET body == Lay(n.Body, p + 1)
            IN  [kind |-> "select", Pos |-> p, Body |-> body, End |-> EndOf(body)]
      [] n.kind = "case" ->
            LET x == Lay(n.X, p + 1)
                colon == EndOr(x, p + 1)
                body == LayList(n.Body, colon + 1)
            IN  [kind |-> "case", Pos |-> p, X |-> x, Colon |-> colon, Body |-> body,
                 End |-> EndOfList(body, colon + 1)]
      [] n.kind = "comm" ->
            LET comm == Lay(n.Comm, p + 1)
                colon == EndOr(comm, p + 1)
                body == LayList(n.Body, colon + 1)
            IN  [kind |-> "comm", Pos |-> p, Comm |-> comm, Colon |-> colon, Body |-> body,
                 End |-> EndOfList(body, colon + 1)]
      [] n.kind = "labeled" ->
            LET s == Lay(n.Stmt, p + 1)
            IN  [kind |-> "labeled", Pos |-> p, Stmt |-> s, End |-> EndOf(s)]
      [] n.kind = "funcdecl" ->
            LET body == Lay(n.Body, p + 1)
            IN  [kind |-> "funcdecl", Pos |-> p, Body |-> body, End |-> EndOf(body)]
      [] n.kind = "file" ->
            LET decls == LayList(n.Decls, p + 1)
            IN  [kind |-> "file", Pos |-> p, Decls |-> decls, End |-> EndOfList(decls, p + 1)]

\* The children of a node in the order of ast.Walk, the nil ones left out.
NonNil(seq) == SelectSeq(seq, LAMBDA c : c.kind # "nil")

Children(n) ==
    CASE n.kind = "expr" -> <<n.X>>
      [] n.kind = "funclit" -> <<n.Body>>
      [] n.kind = "block" -> n.List
      [] n.kind = "if" -> NonNil(<<n.Init, n.Cond, n.Body, n.Else>>)
      [] n.kind = "for" -> NonNil(<<n.Init, n.Cond, n.Post, n.Body>>)
      [] n.kind = "range" -> <<n.X, n.Body>>
      [] n.kind = "switch" -> NonNil(<<n.Init, n.Tag, n.Body>>)
      [] n.kind = "select" -> <<n.Body>>
      [] n.kind = "case" -> NonNil(<<n.X>>) \o n.Body
      [] n.kind = "comm" -> NonNil(<<n.Comm>>) \o n.Body
      [] n.kind = "labeled" -> <<n.Stmt>>
      [] n.kind = "funcdecl" -> <<n.Body>>
      [] n.kind = "file" -> n.Decls
      [] OTHER -> <<>>

(***************************************************************************)
(* cover.go:273-280 hasFuncLiteral with cover.go:395-405 funcLitFinder:    *)
(* the opening brace of the body of the first function literal the walk of *)
(* n meets; 0 (token.NoPos) when there is none.                            *)
(***************************************************************************)
RECURSIVE hasFuncLiteral(_)
RECURSIVE firstFuncLiteral(_)
firstFuncLiteral(seq) ==
    IF seq = <<>> THEN 0
    ELSE IF hasFuncLiteral(Head(seq)) # 0 THEN hasFuncLiteral(Head(seq))
    ELSE firstFuncLiteral(Tail(seq))

hasFuncLiteral(n) ==
    IF n.kind = "nil" THEN 0
    ELSE IF n.kind = "funclit" THEN n.Body.Lbrace
    ELSE firstFuncLiteral(Children(n))

\* The first position of the list that is not 0, else the default.
RECURSIVE firstFound(_, _)
firstFound(seq, default) ==
    IF seq = <<>> THEN default
    ELSE IF Head(seq) # 0 THEN Head(seq)
    ELSE firstFound(Tail(seq), default)

\* cover.go:284-350
RECURSIVE statementBoundary(_)
statementBoundary(s) ==
    CASE s.kind = "block" -> s.Lbrace
      [] s.kind = "if" ->
            firstFound(<<hasFuncLiteral(s.Init), hasFuncLiteral(s.Cond)>>, s.Body.Lbrace)
      [] s.kind = "for" ->
            firstFound(<<hasFuncLiteral(s.Init), hasFuncLiteral(s.Cond),
                         hasFuncLiteral(s.Post)>>, s.Body.Lbrace)
      [] s.kind = "labeled" -> statementBoundary(s.Stmt)
      [] s.kind = "range" -> firstFound(<<hasFuncLiteral(s.X)>>, s.Body.Lbrace)
      [] s.kind = "switch" ->
            firstFound(<<hasFuncLiteral(s.Init), hasFuncLiteral(s.Tag)>>, s.Body.Lbrace)
      [] s.kind = "select" -> s.Body.Lbrace
      [] OTHER -> firstFound(<<hasFuncLiteral(s)>>, EndOf(s))

\* cover.go:355-389 (no statement of the model is a call of panic)
RECURSIVE endsBasicSourceBlock(_)
endsBasicSourceBlock(s) ==
    CASE s.kind \in {"block", "branch", "for", "if", "range", "switch", "select"} -> TRUE
      [] s.kind = "labeled" -> endsBasicSourceBlock(s.Stmt)
      [] OTHER -> hasFuncLiteral(s) # 0

\* cover.go:20-24 Block, as cover.go:264 appends it to f.blocks
Block(start, end, n) == [startByte |-> start, endByte |-> end, numStmt |-> n]

MinOf(S) == CHOOSE x \in S : \A y \in S : x <= y

(***************************************************************************)
(* cover.go:180-216 addCounters: the blocks of the counters added to one   *)
(* statement list, in order.                                               *)
(***************************************************************************)
RECURSIVE addCountersLoop(_, _, _, _)
\* The loop with extendToClosingBrace never cleared.
RECURSIVE addCountersLoopMutExtend(_, _, _, _)
addCountersLoopMutExtend(pos, blockEnd, list, extendToClosingBrace) ==
    LET enders == {k \in 1..Len(list) : endsBasicSourceBlock(list[k])}
        last == IF enders = {} THEN Len(list) ELSE MinOf(enders)
        end == IF extendToClosingBrace /\ enders = {} THEN blockEnd
               ELSE statementBoundary(list[last])
        rest == SubSeq(list, last + 1, Len(list))
    IN  (IF pos # end THEN <<Block(pos, end, last)>> ELSE <<>>) \o
        (IF rest = <<>> THEN <<>>
         ELSE addCountersLoopMutExtend(PosOf(rest[1]), blockEnd, rest, extendToClosingBrace))

addCountersLoop(pos, blockEnd, list, extendToClosingBrace) ==
    LET enders == {k \in 1..Len(list) : endsBasicSourceBlock(list[k])}
        last == IF enders = {} THEN Len(list) ELSE MinOf(enders)
        extend == extendToClosingBrace /\ enders = {}
        end == IF extend THEN blockEnd ELSE statementBoundary(list[last])
        rest == SubSeq(list, last + 1, Len(list))
    IN  (IF pos # end THEN <<Block(pos, end, last)>> ELSE <<>>) \o
        (IF rest = <<>> THEN <<>>
         ELSE addCountersLoop(PosOf(rest[1]), blockEnd, rest, extend))

\* Every block charged with one statement.
addCountersMutCountOne(pos, blockEnd, list, extendToClosingBrace) ==
    LET bs == addCountersLoop(pos, blockEnd, list, extendToClosingBrace)
    IN  IF list = <<>> THEN <<Block(pos, blockEnd, 0)>>
        ELSE [k \in 1..Len(bs) |-> [bs[k] EXCEPT !.numStmt = 1]]

addCounters(pos, blockEnd, list, extendToClosingBrace) ==
    IF list = <<>> THEN <<Block(pos, blockEnd, 0)>>
    ELSE addCountersLoop(pos, blockEnd, list, extendToClosingBrace)

\* cover.go:251-266 newCounter: the counter statement of a block
newCounter(start, end, numStmt) == [kind |-> "counter", block |-> Block(start, end, numStmt)]

\* The basic block without its last statement.
basicBlockMutShort(list, last) == SubSeq(list, 1, last - 1)

\* cover.go:208  list[0:last]
basicBlock(list, last) == SubSeq(list, 1, last)

\* cover.go:180-216 addCounters: the list it returns, the counter
\* statements among the statements it was given.
RECURSIVE newListLoop(_, _, _, _)
newListLoop(pos, blockEnd, list, extendToClosingBrace) ==
    LET enders == {k \in 1..Len(list) : endsBasicSourceBlock(list[k])}
        last == IF enders = {} THEN Len(list) ELSE MinOf(enders)
        extend == extendToClosingBrace /\ enders = {}
        end == IF extend THEN blockEnd ELSE statementBoundary(list[last])
        rest == SubSeq(list, last + 1, Len(list))
    IN  (IF pos # end THEN <<newCounter(pos, end, last)>> ELSE <<>>) \o
        basicBlock(list, last) \o
        (IF rest = <<>> THEN <<>>
         ELSE newListLoop(PosOf(rest[1]), blockEnd, rest, extend))

newList(pos, blockEnd, list, extendToClosingBrace) ==
    IF list = <<>> THEN <<newCounter(pos, blockEnd, 0)>>
    ELSE newListLoop(pos, blockEnd, list, extendToClosingBrace)

\* cover.go:41-44 and cover.go:47-50: the counters of the clauses of a
\* switch or select body
RECURSIVE clauseCounters(_)
clauseCounters(clauses) ==
    IF clauses = <<>> THEN <<>>
    ELSE addCounters(Head(clauses).Pos, Head(clauses).End, Head(clauses).Body, FALSE) \o
         clauseCounters(Tail(clauses))

\* cover.go:71-83: the else of a conditional as Visit rewrites it: an else-if
\* is wrapped in a hidden block; the block starts at the end of the if body.
elseBlock(n) ==
    IF n.Else.kind = "if"
      THEN [kind |-> "block", Lbrace |-> EndOf(n.Body), List |-> <<n.Else>>,
            Rbrace |-> EndOf(n.Else)]
      ELSE [n.Else EXCEPT !.Lbrace = EndOf(n.Body)]

(***************************************************************************)
(* ast.Walk(fc, node) with cover.go:34-103 fileCover.Visit: the blocks     *)
(* appended to f.blocks, in order.  Visit of a block adds the counters of  *)
(* its list (of the lists of its clauses for a switch or select body) and  *)
(* the walk goes on into the children; Visit of a conditional walks the    *)
(* body and the else itself and returns nil, as does Visit of a switch or  *)
(* select without clauses.                                                 *)
(***************************************************************************)
RECURSIVE coverWalk(_)
RECURSIVE coverWalkAll(_)
coverWalkAll(seq) ==
    IF seq = <<>> THEN <<>>
    ELSE coverWalk(Head(seq)) \o coverWalkAll(Tail(seq))

coverWalk(n) ==
    CASE n.kind = "block" ->
            IF n.List # <<>> /\ n.List[1].kind \in {"case", "comm"}
              THEN clauseCounters(n.List) \o coverWalkAll(n.List)
              ELSE addCounters(n.Lbrace, n.Rbrace + 1, n.List, TRUE) \o coverWalkAll(n.List)
      [] n.kind = "if" ->
            coverWalk(n.Body) \o
            (IF n.Else.kind = "nil" THEN <<>> ELSE coverWalk(elseBlock(n)))
      [] n.kind \in {"switch", "select"} ->
            IF n.Body.List = <<>> THEN <<>> ELSE coverWalkAll(Children(n))
      [] OTHER -> coverWalkAll(Children(n))

\* The arguments of a call of addCounters.
CounterCall(pos, blockEnd, list, extend) ==
    [pos |-> pos, blockEnd |-> blockEnd, list |-> list, extend |-> extend]

\* The calls of addCounters that the walk of n makes, in order: cover.go:43
\* and cover.go:49 for the clauses of a switch or select body, cover.go:54 for
\* any other block.
RECURSIVE coverCalls(_)
RECURSIVE coverCallsAll(_)
coverCallsAll(seq) ==
    IF seq = <<>> THEN <<>>
    ELSE coverCalls(Head(seq)) \o coverCallsAll(Tail(seq))

coverCalls(n) ==
    CASE n.kind = "block" ->
            (IF n.List # <<>> /\ n.List[1].kind \in {"case", "comm"}
               THEN [k \in 1..Len(n.List) |->
                       CounterCall(n.List[k].Pos, n.List[k].End, n.List[k].Body, FALSE)]
               ELSE <<CounterCall(n.Lbrace, n.Rbrace + 1, n.List, TRUE)>>) \o
            coverCallsAll(n.List)
      [] n.kind = "if" ->
            coverCalls(n.Body) \o
            (IF n.Else.kind = "nil" THEN <<>> ELSE coverCalls(elseBlock(n)))
      [] n.kind \in {"switch", "select"} ->
            IF n.Body.List = <<>> THEN <<>> ELSE coverCallsAll(Children(n))
      [] OTHER -> coverCallsAll(Children(n))

(***************************************************************************)
(* The inputs of the instrumenter.                                         *)
(***************************************************************************)
PlainStmt == ShExpr(ShIdent)

NestedLists == SeqsUpTo({PlainStmt, ShBranch}, MaxNested)

CBodies == {ShBlock(l) : l \in NestedLists}

LitExprs == {ShFuncLit(b) : b \in CBodies}

OneLit == ShFuncLit(ShBlock(<<PlainStmt>>))

CIfs ==
    {ShIf(init, cond, body, els) :
        init \in {Nil, ShExpr(OneLit)}, cond \in {ShIdent, OneLit}, body \in CBodies,
        els \in {Nil} \cup CBodies \cup {ShIf(Nil, ShIdent, ShBlock(<<>>), Nil)}}

CFors == {ShFor(cond, body) : cond \in {Nil, ShIdent, OneLit}, body \in CBodies}

CRanges == {ShRange(x, body) : x \in {ShIdent, OneLit}, body \in CBodies}

CCases ==
    {ShCase(x, body) : x \in {Nil, ShIdent, OneLit}, body \in {<<>>, <<PlainStmt>>}}

CComms ==
    {ShComm(c, body) :
        c \in {Nil, ShExpr(ShIdent), ShExpr(OneLit)}, body \in {<<>>, <<PlainStmt>>}}

CSwitches ==
    {ShSwitch(tag, cs) : tag \in {Nil, ShIdent, OneLit}, cs \in SeqsUpTo(CCases, MaxCases)}

CSelects == {ShSelect(cs) : cs \in SeqsUpTo(CComms, MaxCases)}

CLabeled == {ShLabeled(s) : s \in CFors \cup CBodies \cup {PlainStmt, ShExpr(OneLit)}}

CStmts ==
    {PlainStmt, ShBranch} \cup {ShExpr(x) : x \in LitExprs} \cup CBodies \cup CIfs \cup
    CFors \cup CRanges \cup CSwitches \cup CSelects \cup CLabeled

\* Files of one function whose body holds one compound statement, alone,
\* next to a plain statement or before a bare block.
CFiles ==
    {ShFile(<<ShFuncDecl(ShBlock(l))>>) :
        l \in {<<>>} \cup {<<s>> : s \in CStmts} \cup {<<s, PlainStmt>> : s \in CStmts} \cup
              {<<PlainStmt, s>> : s \in CStmts} \cup
              {<<s, ShBlock(<<PlainStmt>>)>> : s \in CStmts}}

CoverInit ==
    /\ CorrIdle
    /\ TrimIdle
    /\ MainIdle
    /\ OrchIdle
    /\ ParseIdle
    /\ RewriteIdle
    /\ GoIdle
    /\ cfile \in {Lay(f, 1) : f \in CFiles}
    /\ cblocks = <<>>
    /\ cpc = "parsed"
    /\ \E k \in 1..Len(coverCalls(cfile)) : acall = coverCalls(cfile)[k]
    /\ anew = <<>>
    /\ ablocks = <<>>
    /\ apc = "call"

\* unnamed/part_003:88-94  fc := &fileCover{...}; ast.Walk(fc, file)
AddCoverage ==
    /\ cpc = "parsed"
    /\ cblocks' = coverWalk(cfile)
    /\ cpc' = "covered"
    /\ UNCHANGED <<cfile, acall, anew, ablocks, apc>>
    /\ UNCHANGED <<corrVars, trimVars, mainVars, parseVars, orchVars, rewriteVars, goVars>>

\* cover.go:180-216: one of the calls of addCounters of the walk
AddCounters ==
    /\ apc = "call"
    /\ anew' = newList(acall.pos, acall.blockEnd, acall.list, acall.extend)
    /\ ablocks' = addCounters(acall.pos, acall.blockEnd, acall.list, acall.extend)
    /\ apc' = "returned"
    /\ UNCHANGED <<cfile, cblocks, cpc, acall>>
    /\ UNCHANGED <<corrVars, trimVars, mainVars, parseVars, orchVars, rewriteVars, goVars>>

CoverNext == AddCoverage \/ AddCounters

SpecCover == CoverInit /\ [][CoverNext]_vars

(***************************************************************************)
(* Part IV: rewritePkg and rewriteFile (unnamed/part_003) with             *)
(* fileCover.addVariables (build/cover.go).  rewritePkg starts one task    *)
(* per file of the package; every task runs rewriteFile and sends what it  *)
(* returned on the channel errs, which rewritePkg drains.  The tasks run   *)
(* interleaved.  Writes of addVariables are taken to succeed (the code     *)
(* does not look at what Fprintf returns).                                 *)
(***************************************************************************)
MaxPkgFiles == 2   \* files of a package

\* The files of the packages: one statement, no statement, and two files in
\* which a clause header holds a function literal.
RShapes ==
    {ShFile(<<ShFuncDecl(ShBlock(l))>>) :
        l \in {<<>>, <<PlainStmt>>,
               <<ShSwitch(Nil, <<ShCase(OneLit, <<PlainStmt>>)>>)>>,
               <<ShSelect(<<ShComm(ShExpr(OneLit), <<>>)>>)>>}}

\* The files of a package in one token.FileSet: a file starts one past the
\* end of the file before it.
RECURSIVE LayFiles(_, _)
LayFiles(shapes, base) ==
    IF shapes = <<>> THEN <<>>
    ELSE LET f == Lay(Head(shapes), base)
         IN  <<f>> \o LayFiles(Tail(shapes), f.End + 1)

\* cover.go:425-427 fileCover.offset: the 0-indexed byte offset of pos in
\* the file; the column of a position on the first line is one more.
offset(file, pos) == pos - file.Pos

Column(file, pos) == offset(file, pos) + 1

\* cover.go:432-437: t with sort.Sort(blockSlice(t)): the blocks with their
\* indexes (from 0), by startByte; blocks of equal startByte in any order.
sortedBlocks(bs) ==
    {[j \in 1..Len(bs) |-> [block |-> bs[p[j]], index |-> p[j] - 1]] :
        p \in {q \in [1..Len(bs) -> 1..Len(bs)] :
                 /\ \A a, b \in 1..Len(bs) : a # b => q[a] # q[b]
                 /\ \A a \in 1..(Len(bs) - 1) :
                        bs[q[a]].startByte <= bs[q[a + 1]].startByte}}

\* cover.go:439-444: the two lines written to os.Stderr for the pair
Diagnostic(name, file, a, b) ==
    [name |-> name, first |-> a.index, second |-> b.index,
     spans |-> <<offset(file, a.block.startByte), offset(file, a.block.endByte),
                 offset(file, b.block.startByte), offset(file, b.block.endByte)>>]

\* cover.go:438-446: the self-check over the sorted blocks
selfCheck(name, file, t) ==
    LET hits == SelectSeq([j \in 1..(Len(t) - 1) |-> j + 1],
                          LAMBDA j : t[j - 1].block.endByte > t[j].block.startByte)
    IN  [n \in 1..Len(hits) |-> Diagnostic(name, file, t[hits[n] - 1], t[hits[n]])]

\* The declaration block with nothing in it.
declarationsMutEmpty(file, bs) ==
    [kind |-> "decl", Count |-> 0, Pos |-> <<>>, NumStmt |-> <<>>]

\* cover.go:448-489: the declaration of the coverage struct: the size of the
\* arrays, the three words of each position (start line, end line, the two
\* columns packed in 32 bits) and the statement counts clamped to 16 bits.
declarations(file, bs) ==
    [kind |-> "decl",
     Count |-> Len(bs),
     Pos |-> [j \in 1..Len(bs) |->
                <<1, 1, (Column(file, bs[j].endByte) % 65536) * 65536 +
                        (Column(file, bs[j].startByte) % 65536)>>],
     NumStmt |-> [j \in 1..Len(bs) |->
                    IF bs[j].numStmt > 65535 THEN 65535 ELSE bs[j].numStmt]]

\* part_003:46  addDecl := idx == 0 (the files are counted from 1 here)
addDecl(k) == k = 1

RewriteInit ==
    /\ CorrIdle
    /\ TrimIdle
    /\ MainIdle
    /\ OrchIdle
    /\ ParseIdle
    /\ CoverIdle
    /\ GoIdle
    /\ \E shapes \in SeqsUpTo(RShapes, MaxPkgFiles) :
          /\ shapes # <<>>
          /\ pkgFiles = LayFiles(shapes, 1)
    /\ dst \in {"", "out"}
    /\ rpc = [k \in 1..Len(pkgFiles) |-> "start"]
    /\ fblocks = [k \in 1..Len(pkgFiles) |-> <<>>]
    /\ woutput = [k \in 1..Len(pkgFiles) |-> <<>>]
    /\ rret = [k \in 1..Len(pkgFiles) |-> "none"]
    /\ stderr = <<>>
    /\ errs = <<>>
    /\ stdoutLock = 0
    /\ firstErr = "nil"
    /\ nrecv = 0
    /\ console = <<>>

\* rewriteFile of file k returns err; the deferred stdoutLock.Unlock()
\* (part_003:108) runs if the task holds the lock.  The value is not yet sent.
Return(k, err) ==
    /\ rpc' = [rpc EXCEPT ![k] = "returned"]
    /\ rret' = [rret EXCEPT ![k] = err]
    /\ stdoutLock' = IF stdoutLock = k THEN 0 ELSE stdoutLock
    /\ UNCHANGED errs

\* part_003:47  errs <- rewriteFile(...): the task of file k sends what
\* rewriteFile returned; the channel has room for every task.
Send(k) ==
    /\ rpc[k] = "returned"
    /\ rpc' = [rpc EXCEPT ![k] = "sent"]
    /\ errs' = Append(errs, rret[k])
    /\ UNCHANGED <<pkgFiles, dst, fblocks, stderr, woutput, stdoutLock, rret, firstErr, nrecv,
                   console>>
    /\ UNCHANGED <<corrVars, trimVars, mainVars, parseVars, orchVars, coverVars, goVars>>

\* part_003:65-81: read the source, open the output
OpenOutput(k) ==
    /\ rpc[k] = "start"
    /\ \E outcome \in {"ok", "read"} \cup (IF dst # "" THEN {"mkdir", "create"} ELSE {}) :
          IF outcome = "ok"
            THEN /\ rpc' = [rpc EXCEPT ![k] = "opened"]
                 /\ UNCHANGED <<rret, errs, stdoutLock>>
            ELSE Return(k, outcome)
    /\ UNCHANGED <<pkgFiles, dst, fblocks, stderr, woutput, firstErr, nrecv, console>>
    /\ UNCHANGED <<corrVars, trimVars, mainVars, parseVars, orchVars, coverVars, goVars>>

\* part_003:83-102: the cover pass (the tracing pass after it adds no block)
Instrument(k) ==
    /\ rpc[k] = "opened"
    /\ fblocks' = [fblocks EXCEPT ![k] = coverWalk(pkgFiles[k])]
    /\ rpc' = [rpc EXCEPT ![k] = "walked"]
    /\ UNCHANGED <<pkgFiles, dst, stderr, woutput, errs, stdoutLock, rret, firstErr, nrecv, console>>
    /\ UNCHANGED <<corrVars, trimVars, mainVars, parseVars, orchVars, coverVars, goVars>>

\* The lock never taken.
needsLockMutNever(d) == FALSE

\* part_003:104  if dst == ""
needsLock(d) == d = ""

\* The writes of the task of file k, as they reach os.Stdout when no
\* destination is given (part_003:71 output := os.Stdout).
toConsole(k, items) ==
    IF dst = "" THEN console \o [n \in 1..Len(items) |-> [file |-> k, kind |-> items[n].kind]]
    ELSE console

\* part_003:104-109
LockStdout(k) ==
    /\ rpc[k] = "walked"
    /\ IF needsLock(dst)
         THEN /\ stdoutLock = 0
              /\ stdoutLock' = k
         ELSE UNCHANGED stdoutLock
    /\ rpc' = [rpc EXCEPT ![k] = "locked"]
    /\ UNCHANGED <<pkgFiles, dst, fblocks, stderr, woutput, errs, rret, firstErr, nrecv, console>>
    /\ UNCHANGED <<corrVars, trimVars, mainVars, parseVars, orchVars, coverVars, goVars>>

\* part_003:111-113  output.Write(initialComments(src))
WriteComments(k) ==
    /\ rpc[k] = "locked"
    /\ \E outcome \in {"ok", "write"} :
          IF outcome = "ok"
            THEN /\ woutput' = [woutput EXCEPT ![k] = Append(@, [kind |-> "comments"])]
                 /\ console' = toConsole(k, <<[kind |-> "comments"]>>)
                 /\ rpc' = [rpc EXCEPT ![k] = "commented"]
                 /\ UNCHANGED <<rret, errs, stdoutLock>>
            ELSE /\ Return(k, outcome)
                 /\ UNCHANGED <<woutput, console>>
    /\ UNCHANGED <<pkgFiles, dst, fblocks, stderr, firstErr, nrecv>>
    /\ UNCHANGED <<corrVars, trimVars, mainVars, parseVars, orchVars, coverVars, goVars>>

\* part_003:115-117  printer.Fprint(output, fset, file)
PrintFile(k) ==
    /\ rpc[k] = "commented"
    /\ \E outcome \in {"ok", "print"} :
          IF outcome = "ok"
            THEN /\ woutput' = [woutput EXCEPT ![k] = Append(@, [kind |-> "file"])]
                 /\ console' = toConsole(k, <<[kind |-> "file"]>>)
                 /\ rpc' = [rpc EXCEPT ![k] = "printed"]
                 /\ UNCHANGED <<rret, errs, stdoutLock>>
            ELSE /\ Return(k, outcome)
                 /\ UNCHANGED <<woutput, console>>
    /\ UNCHANGED <<pkgFiles, dst, fblocks, stderr, firstErr, nrecv>>
    /\ UNCHANGED <<corrVars, trimVars, mainVars, parseVars, orchVars, coverVars, goVars>>

\* part_003:119-122 with cover.go:430-490
AddVariables(k) ==
    /\ rpc[k] = "printed"
    /\ IF addDecl(k)
         THEN \E t \in sortedBlocks(fblocks[k]) :
                 /\ stderr' = stderr \o selfCheck(k, pkgFiles[k], t)
                 /\ woutput' = [woutput EXCEPT ![k] =
                                  Append(@, declarations(pkgFiles[k], fblocks[k]))]
                 /\ console' = toConsole(k, <<declarations(pkgFiles[k], fblocks[k])>>)
         ELSE UNCHANGED <<stderr, woutput, console>>
    /\ Return(k, "nil")
    /\ UNCHANGED <<pkgFiles, dst, fblocks, firstErr, nrecv>>
    /\ UNCHANGED <<corrVars, trimVars, mainVars, parseVars, orchVars, coverVars, goVars>>

\* part_003:52-58: rewritePkg receives what a task returned
Receive ==
    /\ nrecv < Len(pkgFiles)
    /\ errs # <<>>
    /\ firstErr' = IF firstErr = "nil" THEN Head(errs) ELSE firstErr
    /\ errs' = Tail(errs)
    /\ nrecv' = nrecv + 1
    /\ UNCHANGED <<pkgFiles, dst, rpc, fblocks, stderr, woutput, stdoutLock, rret, console>>
    /\ UNCHANGED <<corrVars, trimVars, mainVars, parseVars, orchVars, coverVars, goVars>>

RewriteNext ==
    \/ \E k \in 1..Len(pkgFiles) :
          \/ OpenOutput(k)
          \/ Instrument(k)
          \/ LockStdout(k)
          \/ WriteComments(k)
          \/ PrintFile(k)
          \/ AddVariables(k)
          \/ Send(k)
    \/ Receive

SpecRewrite == RewriteInit /\ [][RewriteNext]_vars

(***************************************************************************)
(* Part V: the rewrite of a go statement, rewriter.addGoFunc               *)
(* (build/rewrite.go), and its run with runtimeutil.MakeFunc and           *)
(* MakeVariadicFunc (runtimeutil/closure.go).  The call of the statement   *)
(* is fn(args) or fn(args, s...): fn, a, b and s are variables of the      *)
(* spawning task, which may assign to them after the go statement,         *)
(* while the new task runs.  A function value has a number of fixed        *)
(* parameters and may be variadic; what it receives is the list of its     *)
(* parameter values, the variadic one being a slice.  Values carry their   *)
(* dynamic type: the capture helpers take them as interface{} and the      *)
(* closure passes them on with reflect, which checks them when it calls.   *)
(***************************************************************************)
MaxArgs == 2     \* arguments of the call of a go statement
MaxWrites == 1   \* assignments of the spawning task after the go statement

\* rewrite.go:18
traceIDName == "_discover_trace_id_"

\* rewriter.ruPkg, as addImport returned it (rewrite.go:85)
RuPkg == "_discover_runtimeutil_"

\* registry.go:15-17 TraceID(), the value addIDLookup gives the variable
\* traceIDName at the top of the function (rewrite.go:286-297)
TraceID == 0

GoIdent(name) == [kind |-> "ident", Name |-> name]

GoSelector(x, sel) == [kind |-> "selector", X |-> GoIdent(x), Sel |-> sel]

\* An *ast.CallExpr; Ellipsis is whether call.Ellipsis != token.NoPos.
GoCall(fun, args, ellipsis) ==
    [kind |-> "call", Fun |-> fun, Args |-> args, Ellipsis |-> ellipsis]

\* rewrite.go:324-327
closureFn(call) == IF call.Ellipsis THEN "MakeVariadicFunc" ELSE "MakeFunc"

\* rewrite.go:311-373
addGoFunc(call) ==
    LET closureArgs == <<call.Fun>> \o call.Args
        closureCall == GoCall(GoSelector(RuPkg, closureFn(call)), closureArgs, FALSE)
        lit == [kind |-> "funclit",
                Params |-> <<"f">>,
                Body |-> <<ShExpr(GoCall(GoSelector(RuPkg, "ChildEnable"),
                                         <<GoIdent(traceIDName)>>, FALSE)),
                           ShExpr(GoCall(GoIdent("f"), <<>>, FALSE))>>]
    IN  GoCall(lit, <<closureCall>>, FALSE)

\* An *ast.BasicLit: the untyped integer constant 1.
GoLit == [kind |-> "lit", Value |-> "1"]

\* The text of an argument of the call: the name of a variable or a literal.
ArgText(arg) == IF arg.kind = "lit" THEN arg.Value ELSE arg.Name

\* The types of the parameters of the function values: two integer types
\* and an interface type.
GoTypes == {"int", "int64", "error"}

\* The function values: a name, the number of fixed parameters, whether
\* there is a variadic one, and the type of every parameter.
GoFuncs ==
    {[name |-> nm, fixed |-> k, variadic |-> v, ptype |-> t] :
        nm \in {"F", "G"}, k \in 0..MaxArgs, v \in BOOLEAN, t \in GoTypes}

\* The nil value of an interface type.
NilIface == [type |-> "nil", v |-> 0]

\* The values of a variable of type t, with their dynamic type; an error is
\* nil or a *E.
GoVals(t) ==
    IF t = "error"
    THEN {NilIface, [type |-> "*E", v |-> 0]}
    ELSE {[type |-> t, v |-> n] : n \in 0..1}

\* The type []t.
SliceOf(t) ==
    CASE t = "int" -> "[]int"
      [] t = "int64" -> "[]int64"
      [] OTHER -> "[]error"

\* The slices of type []t.
GoSlices(t) ==
    {[type |-> SliceOf(t), elems |-> <<>>]} \cup
    {[type |-> SliceOf(t), elems |-> <<x>>] : x \in GoVals(t)}

\* The values a variable of the spawning task may hold, by its static type:
\* fn, a, b and s keep the types the call compiled with.
GoDomain(name, fv) ==
    CASE name = "fn" ->
           {g \in GoFuncs : g.fixed = fv.fixed /\ g.variadic = fv.variadic
                             /\ g.ptype = fv.ptype}
      [] name = "s" -> GoSlices(fv.ptype)
      [] name = traceIDName -> {TraceID}
      [] OTHER -> GoVals(fv.ptype)

GoEnvs ==
    UNION {
      {[n \in {"fn", "a", "b", "s", traceIDName} |->
          CASE n = "fn" -> fv [] n = "a" -> va [] n = "b" -> vb [] n = "s" -> vs
            [] OTHER -> id] :
          va \in GoVals(fv.ptype), vb \in GoVals(fv.ptype), vs \in GoSlices(fv.ptype),
          id \in {TraceID}} :
      fv \in GoFuncs}

\* The calls of the go statements: fn(args) and fn(args, s...), an argument
\* being the variable a, the variable b or the constant 1.
GoArgs == {GoIdent("a"), GoIdent("b"), GoLit}

GoCalls ==
    {GoCall(GoIdent("fn"), args, FALSE) : args \in SeqsUpTo(GoArgs, MaxArgs)} \cup
    {GoCall(GoIdent("fn"), args \o <<GoIdent("s")>>, TRUE) :
        args \in SeqsUpTo(GoArgs, MaxArgs - 1)}

\* The call compiles with the function value fv: the number of arguments
\* fits, and a constant 1 is not given for a parameter of interface type
\* error (the variables have the type of the parameters).
CallFits(call, fv) ==
    /\ IF call.Ellipsis THEN fv.variadic /\ Len(call.Args) = fv.fixed + 1
       ELSE IF fv.variadic THEN Len(call.Args) >= fv.fixed
       ELSE Len(call.Args) = fv.fixed
    /\ (\E k \in 1..Len(call.Args) : call.Args[k].kind = "lit") => fv.ptype # "error"

\* The value of an operand of the capture helper, a parameter of type
\* interface{}: a variable gives its value, the untyped constant 1 its
\* default type int.
OperandValue(arg, env) ==
    IF arg.kind = "lit" THEN [type |-> "int", v |-> 1] ELSE env[arg.Name]

\* reflect.ValueOf (closure.go:16, closure.go:34): the zero Value for a nil
\* interface, else a Value of the dynamic type.
ValueOf(x) == [valid |-> x # NilIface, x |-> x]

\* reflect: a value of dynamic type t may be passed for a parameter of type p.
Assignable(t, p) == t = p \/ (p = "error" /\ t = "*E")

\* What a call with reflect gives: the values the function receives, or the
\* panic of reflect, in which case the function is not called.
Received(values) == [panic |-> "none", received |-> values]

Panics(why) == [panic |-> why, received |-> <<>>]

\* reflect.Value.Call(in) (closure.go:20): it panics on a wrong number of
\* arguments, on a zero Value and on a value not assignable to the type of
\* its parameter; else the function receives the values, the ones past the
\* fixed parameters of a variadic function as one slice.
valCall(fv, in) ==
    IF (fv.variadic /\ Len(in) < fv.fixed) \/ (~fv.variadic /\ Len(in) # fv.fixed)
    THEN Panics("reflect: Call with wrong number of input arguments")
    ELSE IF \E k \in 1..Len(in) : ~in[k].valid
    THEN Panics("reflect: Call using zero Value argument")
    ELSE IF \E k \in 1..Len(in) : ~Assignable(in[k].x.type, fv.ptype)
    THEN Panics("reflect: Call using value of wrong type")
    ELSE LET xs == [k \in 1..Len(in) |-> in[k].x]
         IN  IF fv.variadic
             THEN Received(SubSeq(xs, 1, fv.fixed) \o
                           <<[type |-> SliceOf(fv.ptype),
                              elems |-> SubSeq(xs, fv.fixed + 1, Len(xs))]>>)
             ELSE Received(xs)

\* reflect.Value.CallSlice(in) (closure.go:38): the function is variadic and
\* the last of in is the slice for its variadic parameter; the same panics.
valCallSlice(fv, in) ==
    IF ~fv.variadic
    THEN Panics("reflect: CallSlice of non-variadic function")
    ELSE IF Len(in) # fv.fixed + 1
    THEN Panics("reflect: CallSlice with wrong number of input arguments")
    ELSE IF \E k \in 1..Len(in) : ~in[k].valid
    THEN Panics("reflect: CallSlice using zero Value argument")
    ELSE IF \/ \E k \in 1..fv.fixed : ~Assignable(in[k].x.type, fv.ptype)
            \/ in[Len(in)].x.type # SliceOf(fv.ptype)
    THEN Panics("reflect: CallSlice using value of wrong type")
    ELSE Received([k \in 1..Len(in) |-> in[k].x])

\* closure.go:8-22 MakeFunc and closure.go:26-40 MakeVariadicFunc: the
\* closure over val and in.
\* closure over val and in, each argument taken with reflect.ValueOf.  (f is a
\* function value here, so val.Kind() is reflect.Func.)
MakeClosure(fn, f, args) ==
    [val |-> f,
     in |-> [k \in 1..Len(args) |-> ValueOf(args[k])],
     slice |-> fn = "MakeVariadicFunc"]

\* closure.go:19-21 and closure.go:37-39: the closure runs.
RunClosure(c) == IF c.slice THEN valCallSlice(c.val, c.in) ELSE valCall(c.val, c.in)

\* The operands of the rewritten go statement that the spawning task
\* evaluates: the arguments of the call of the capture helper.
Operands == gcall.Args[1].Args

GoInit ==
    /\ CorrIdle
    /\ TrimIdle
    /\ MainIdle
    /\ OrchIdle
    /\ ParseIdle
    /\ CoverIdle
    /\ RewriteIdle
    /\ gorig \in GoCalls
    /\ genv \in GoEnvs
    /\ CallFits(gorig, genv["fn"])
    /\ gcall = Nil
    /\ gstack = <<>>
    /\ gchild = Nil
    /\ glog = <<>>
    /\ gpc = "parsed"

\* rewrite.go:253-260  n.Call = r.addGoFunc(n.Call)
RewriteGo ==
    /\ gpc = "parsed"
    /\ gcall' = addGoFunc(gorig)
    /\ gpc' = "rewritten"
    /\ UNCHANGED <<gorig, genv, gstack, gchild, glog>>
    /\ UNCHANGED <<corrVars, trimVars, mainVars, parseVars, orchVars, coverVars, rewriteVars>>

\* The spawning task evaluates the next argument of the capture helper.
EvalOperand ==
    /\ gpc = "rewritten"
    /\ Len(gstack) < Len(Operands)
    /\ LET arg == Operands[Len(gstack) + 1]
       IN  /\ gstack' = Append(gstack, OperandValue(arg, genv))
           /\ glog' = Append(glog, [ev |-> "eval", name |-> ArgText(arg),
                                    value |-> OperandValue(arg, genv)])
    /\ UNCHANGED <<gcall, gorig, genv, gchild, gpc>>
    /\ UNCHANGED <<corrVars, trimVars, mainVars, parseVars, orchVars, coverVars, rewriteVars>>

\* closure.go:8-22, closure.go:26-40: the spawning task calls the helper.
CallHelper ==
    /\ gpc = "rewritten"
    /\ Len(gstack) = Len(Operands)
    /\ gstack' = <<MakeClosure(gcall.Args[1].Fun.Sel, gstack[1], Tail(gstack))>>
    /\ glog' = Append(glog, [ev |-> "make", fn |-> gcall.Args[1].Fun.Sel])
    /\ gpc' = "made"
    /\ UNCHANGED <<gcall, gorig, genv, gchild>>
    /\ UNCHANGED <<corrVars, trimVars, mainVars, parseVars, orchVars, coverVars, rewriteVars>>

\* The go statement starts the new task on the function literal with the
\* closure as its parameter f.
Spawn ==
    /\ gpc = "made"
    /\ gchild' = [kind |-> "task", f |-> gstack[1], pc |-> "start"]
    /\ glog' = Append(glog, [ev |-> "spawn", env |-> genv])
    /\ gpc' = "spawned"
    /\ UNCHANGED <<gcall, gorig, genv, gstack>>
    /\ UNCHANGED <<corrVars, trimVars, mainVars, parseVars, orchVars, coverVars, rewriteVars>>

Writes == Len(SelectSeq(glog, LAMBDA e : e.ev = "write"))

\* The spawning task goes on and assigns to one of its variables.
ParentWrite ==
    /\ gpc = "spawned"
    /\ Writes < MaxWrites
    /\ \E name \in {"fn", "a", "b", "s"} :
          \E v \in GoDomain(name, genv["fn"]) :
             /\ v # genv[name]
             /\ genv' = [genv EXCEPT ![name] = v]
             /\ glog' = Append(glog, [ev |-> "write", name |-> name])
    /\ UNCHANGED <<gcall, gorig, gstack, gchild, gpc>>
    /\ UNCHANGED <<corrVars, trimVars, mainVars, parseVars, orchVars, coverVars, rewriteVars>>

\* rewrite.go:352-359: the first statement of the literal, in the new task
ChildEnable ==
    /\ gchild.kind = "task"
    /\ gchild.pc = "start"
    /\ glog' = Append(glog, [ev |-> "ChildEnable",
                             id |-> genv[gcall.Fun.Body[1].X.Args[1].Name]])
    /\ gchild' = [gchild EXCEPT !.pc = "enabled"]
    /\ UNCHANGED <<gcall, gorig, genv, gstack, gpc>>
    /\ UNCHANGED <<corrVars, trimVars, mainVars, parseVars, orchVars, coverVars, rewriteVars>>

\* rewrite.go:361-363 with closure.go:19-21, 37-39: the second statement of
\* the literal calls f, the closure, which calls the function with reflect
\* or panics in the new task.
ChildCall ==
    /\ gchild.kind = "task"
    /\ gchild.pc = "enabled"
    /\ LET r == RunClosure(gchild.f)
       IN  /\ glog' = Append(glog, [ev |-> "call", fn |-> gchild.f.val,
                                    received |-> r.received, panic |-> r.panic])
           /\ gchild' = [gchild EXCEPT !.pc = IF r.panic = "none" THEN "done"
                                              ELSE "panicked"]
    /\ UNCHANGED <<gcall, gorig, genv, gstack, gpc>>
    /\ UNCHANGED <<corrVars, trimVars, mainVars, parseVars, orchVars, coverVars, rewriteVars>>

GoNext ==
    \/ RewriteGo
    \/ EvalOperand
    \/ CallHelper
    \/ Spawn
    \/ ParentWrite
    \/ ChildEnable
    \/ ChildCall

SpecGo == GoInit /\ [][GoNext]_vars

(***************************************************************************)
(* Claims about the correlator.                                            *)
(***************************************************************************)
\* Overlap as the claim states it: neither (record end <= extent start)
\* nor (record start >= extent end), in (line, column) order.
Overlaps(b, e) ==
    /\ ~PosLE(b.EndLine, b.EndCol, e.startLine, e.startCol)
    /\ ~PosLE(e.endLine, e.endCol, b.StartLine, b.StartCol)

OverlapIdx(e) == {j \in 1..Len(profBlocks) : Overlaps(profBlocks[j], e)}

FirstOverlapIdx(e) == CHOOSE j \in OverlapIdx(e) : \A k \in OverlapIdx(e) : j <= k

ReachedByFirstOverlap(e) ==
    /\ OverlapIdx(e) # {}
    /\ profBlocks[FirstOverlapIdx(e)].Count > 0

\* C1: when ParseProfile returns, an extent (function or statement) is in the
\* reached set iff some record overlaps it and the first overlapping record,
\* in record order, has execution count > 0.
C1_ReachedIffFirstOverlap ==
    pc = "done" =>
        /\ \A k \in 1..Len(allFuncs) : (k \in Funcs) <=> ReachedByFirstOverlap(allFuncs[k].ext)
        /\ \A k \in 1..Len(allStmts) : (k \in Stmts) <=> ReachedByFirstOverlap(allStmts[k].ext)

\* ParseProfile has returned; one statement's first overlapping record has
\* count 0 and a later overlapping record has count > 0, and it is not
\* reached; another statement is reached, and so is a function.
C1_Witness ==
    /\ pc = "done"
    /\ \E k \in 1..Len(allStmts) :
          /\ k \notin Stmts
          /\ \E j \in OverlapIdx(allStmts[k].ext) :
                /\ j > FirstOverlapIdx(allStmts[k].ext)
                /\ profBlocks[j].Count > 0
    /\ Stmts # {}
    /\ Funcs # {}

\* C2 (as claimed): every pass of the outer loop of a sweep strictly
\* advances the extent side or the record side.
C2_EachIterationAdvances ==
    [][(pc \in {"funcScan", "stmtScan"} /\ pc' \in {"funcs", "stmts"}) =>
          \/ Len(funcs') < Len(funcs)
          \/ Len(stmts') < Len(stmts)
          \/ Len(blocks') < Len(blocks)]_vars

\* The hypothesis of the round trip, on the inputs of ParseProfile.
RoundTripInput ==
    /\ Len(profBlocks) = Len(allStmts)
    /\ \A k \in 1..Len(allStmts) :
          /\ PosLE(profBlocks[k].StartLine, profBlocks[k].StartCol,
                   allStmts[k].ext.startLine, allStmts[k].ext.startCol)
          /\ PosLE(allStmts[k].ext.endLine, allStmts[k].ext.endCol,
                   profBlocks[k].EndLine, profBlocks[k].EndCol)
          /\ (profBlocks[k].Count > 0) <=> ((k - 1) % 2 = 0)
    /\ \A k \in 1..(Len(allStmts) - 1) :
          /\ PosLE(allStmts[k].ext.endLine, allStmts[k].ext.endCol,
                   allStmts[k + 1].ext.startLine, allStmts[k + 1].ext.startCol)
          /\ PosLE(profBlocks[k].EndLine, profBlocks[k].EndCol,
                   profBlocks[k + 1].StartLine, profBlocks[k + 1].StartCol)

\* C3: round trip: for N statements with pairwise disjoint, ordered extents
\* and N pairwise disjoint records, record i spanning statement i with
\* count > 0 iff i is even (0-based), ParseProfile returns with exactly the
\* even-indexed statements reached.
C3_RoundTripEven ==
    (RoundTripInput /\ pc = "done") =>
        Stmts = {k \in 1..Len(allStmts) : (k - 1) % 2 = 0}

\* The round trip has run on three statements: the first and third are
\* reached, the second is not.
C3_Witness ==
    /\ RoundTripInput
    /\ pc = "done"
    /\ Len(allStmts) = 3
    /\ Stmts = {1, 3}

(***************************************************************************)
(* Claims about the trimmer.                                               *)
(***************************************************************************)
\* The node is a key of Profile.Stmts (or Profile.Funcs) mapped to true.
IsReached(n) == n.kind # "nil" /\ n.reached

\* All call expressions of a header node, in depth-first source order.
RECURSIVE CallsIn(_)
CallsIn(n) ==
    CASE n.kind = "call" -> <<n>>
      [] n.kind = "binary" -> CallsIn(n.X) \o CallsIn(n.Y)
      [] n.kind \in {"expr", "assign", "incdec"} -> CallsIn(n.X)
      [] OTHER -> <<>>

\* A bare expression statement holding the call c (a node in no map).
Bare(c) == [kind |-> "expr", reached |-> FALSE, X |-> c]

\* The first call of a header node as a bare statement, if there is one.
FirstCallStmt(n) == IF CallsIn(n) = <<>> THEN <<>> ELSE <<Bare(Head(CallsIn(n)))>>

DeclKeys(decls) == [k \in 1..Len(decls) |-> <<decls[k].kind, decls[k].Name>>]

IsReachedFunc(d) == d.kind = "func" /\ d.reached

\* C4: after Trim on a file, its declaration list is exactly the subsequence
\* of the original declarations that are function declarations in the
\* reached-function set, in the original order.
C4_DeclsAreReachedFuncs ==
    tpc = "trimmed" =>
        DeclKeys(tree.Decls) = DeclKeys(SelectSeq(origTree.Decls, IsReachedFunc))

\* Trim has run on a file of three declarations holding a non-function
\* declaration and an unreached function: one declaration is left.
C4_Witness ==
    /\ tpc = "trimmed"
    /\ Len(origTree.Decls) = 3
    /\ \E k \in 1..3 : origTree.Decls[k].kind = "gen"
    /\ \E k \in 1..3 : origTree.Decls[k].kind = "func" /\ ~origTree.Decls[k].reached
    /\ Len(tree.Decls) = 1

\* C5: when the if-body of a conditional is reached, replaceStmt returns
\* exactly that conditional (one statement, the same node), its else cleared
\* if the else was not reached or absent and left in place if it was reached.
C5_IfBodyReached ==
    (tpc = "replaced" /\ origStmt.kind = "if" /\ IsReached(origStmt.Body)) =>
        /\ out = <<stmt>>
        /\ stmt = [origStmt EXCEPT
                      !.Else = IF IsReached(origStmt.Else) THEN origStmt.Else ELSE Nil]

\* replaceStmt has run on `if cond { A() } else { B() }` with only the
\* if-body reached: the one statement returned has no else.
C5_Witness ==
    /\ tpc = "replaced"
    /\ origStmt.kind = "if"
    /\ IsReached(origStmt.Body)
    /\ origStmt.Else.kind = "block"
    /\ ~origStmt.Else.reached
    /\ Len(out) = 1
    /\ out[1].Else = Nil

\* C6: when neither the if-body nor the else is reached, the conditional is
\* replaced by the call found in its init followed by the call found in its
\* condition, each as a bare expression statement and only if present.
C6_NeitherReached ==
    (tpc = "replaced" /\ origStmt.kind = "if"
        /\ ~IsReached(origStmt.Body) /\ ~IsReached(origStmt.Else)) =>
        out = FirstCallStmt(origStmt.Init) \o FirstCallStmt(origStmt.Cond)

\* replaceStmt has run on `if f() { A() } else { B() }`, neither branch
\* reached: the result is the statement `f()`.
C6_Witness ==
    /\ tpc = "replaced"
    /\ origStmt = IfStmt(TRUE, Nil, Call("f"), BlockStmt(FALSE, <<LeafA>>),
                         BlockStmt(FALSE, <<LeafB>>))
    /\ out = <<Bare(Call("f"))>>

\* C7 (as claimed): if-body not reached, else reached: the conditional is
\* replaced by exactly the replacement statements of the else branch, with
\* no call from init or condition.
C7_OnlyElseReplacement ==
    (tpc = "replaced" /\ origStmt.kind = "if"
        /\ ~IsReached(origStmt.Body) /\ IsReached(origStmt.Else)) =>
        out = replaceStmt(origStmt.Else)

\* C7 (amended): if-body not reached, else reached: the conditional is
\* replaced by the call found in its init, the call found in its condition
\* (bare statements, each only if present), then the replacement statements
\* of the else branch.
C7_CallsThenElseReplacement ==
    (tpc = "replaced" /\ origStmt.kind = "if"
        /\ ~IsReached(origStmt.Body) /\ IsReached(origStmt.Else)) =>
        out = FirstCallStmt(origStmt.Init) \o FirstCallStmt(origStmt.Cond)
                \o replaceStmt(origStmt.Else)

\* replaceStmt has run on a conditional with calls in init and condition,
\* the if-body not reached and the else block reached: two bare calls, then
\* the else block.
C7_Witness ==
    /\ tpc = "replaced"
    /\ origStmt.kind = "if"
    /\ ~IsReached(origStmt.Body)
    /\ origStmt.Else.kind = "block"
    /\ origStmt.Else.reached
    /\ CallsIn(origStmt.Init) # <<>>
    /\ CallsIn(origStmt.Cond) # <<>>
    /\ Len(out) = 3
    /\ out[3] = origStmt.Else

\* C8: a for loop whose body is not reached is replaced by the first call of
\* init, of cond and of post, each as its own expression statement, in that
\* order, omitting the components without a call.
C8_LoopUnreached ==
    (tpc = "replaced" /\ origStmt.kind = "for" /\ ~IsReached(origStmt.Body)) =>
        out = FirstCallStmt(origStmt.Init) \o FirstCallStmt(origStmt.Cond)
                \o FirstCallStmt(origStmt.Post)

\* replaceStmt has run on an unreached loop whose only header call is a()
\* in init: the result is the statement `a()`.
C8_Witness ==
    /\ tpc = "replaced"
    /\ origStmt.kind = "for"
    /\ ~IsReached(origStmt.Body)
    /\ origStmt.Init = AssignStmt(Call("a"))
    /\ CallsIn(origStmt.Cond) = <<>>
    /\ CallsIn(origStmt.Post) = <<>>
    /\ out = <<Bare(Call("a"))>>

\* C9: a range statement whose body is not reached is replaced by one bare
\* expression statement holding the first call of its collection expression,
\* or by nothing when that expression holds no call.
C9_RangeUnreached ==
    (tpc = "replaced" /\ origStmt.kind = "range" /\ ~IsReached(origStmt.Body)) =>
        out = FirstCallStmt(origStmt.X)

\* replaceStmt has run on an unreached range over `f() && g()`-shaped
\* collection: the result is the statement `f()`.
C9_Witness ==
    /\ tpc = "replaced"
    /\ origStmt.kind = "range"
    /\ ~IsReached(origStmt.Body)
    /\ origStmt.X = Binary(Call("f"), Call("g"))
    /\ out = <<Bare(Call("f"))>>

\* The files of one reached function, and the members of its body that are
\* range statements with a reached body, preceded by plain statements only
\* (so that the member keeps its index in the trimmed list).
OneReachedFunc ==
    /\ tpc = "trimmed"
    /\ Len(origTree.Decls) = 1
    /\ IsReachedFunc(origTree.Decls[1])

ReachedRangeAt(k) ==
    LET list == origTree.Decls[1].Body.List
    IN  /\ k \in 1..Len(list)
        /\ list[k].kind = "range"
        /\ IsReached(list[k].Body)
        /\ \A j \in 1..(k - 1) : list[j].kind = "expr"

\* C10 (as claimed): a range statement whose body was reached is kept as-is
\* by Trim: nothing inside its body is pruned.
C10_RangeShownWhole ==
    OneReachedFunc =>
        \A k \in 1..Len(origTree.Decls[1].Body.List) :
            ReachedRangeAt(k) =>
                tree.Decls[1].Body.List[k] = origTree.Decls[1].Body.List[k]

\* C10 (amended): replaceStmt returns a range statement whose body was
\* reached unchanged, and Trim keeps it at its place with the same header
\* and body block, the statement list of that body trimmed as Trim trims
\* the block on its own.
C10_RangeKeptBodyTrimmed ==
    /\ (tpc = "replaced" /\ origStmt.kind = "range" /\ IsReached(origStmt.Body)) =>
          (out = <<stmt>> /\ stmt = origStmt)
    /\ OneReachedFunc =>
          \A k \in 1..Len(origTree.Decls[1].Body.List) :
              ReachedRangeAt(k) =>
                  LET s == origTree.Decls[1].Body.List[k]
                      t == tree.Decls[1].Body.List[k]
                  IN  /\ t.kind = "range"
                      /\ t.X = s.X
                      /\ t.reached = s.reached
                      /\ t.Body.reached = s.Body.reached
                      /\ t.Body.List = Trim(s.Body).List

\* Trim has run on a function whose body starts with a range statement with
\* a reached body: the statement is kept, and its body has been pruned.
C10_Witness ==
    /\ OneReachedFunc
    /\ ReachedRangeAt(1)
    /\ tree.Decls[1].Body.List[1].kind = "range"
    /\ tree.Decls[1].Body.List[1] # origTree.Decls[1].Body.List[1]

\* The call expressions of the header of a loop, range or conditional, in
\* source order: init, condition, post; or the collection expression.
HeaderCalls(s) ==
    CASE s.kind = "range" -> CallsIn(s.X)
      [] s.kind = "for" -> CallsIn(s.Init) \o CallsIn(s.Cond) \o CallsIn(s.Post)
      [] s.kind = "if" -> CallsIn(s.Init) \o CallsIn(s.Cond)
      [] OTHER -> <<>>

\* a is a subsequence of b: the members of a occur in b, in the order of a.
RECURSIVE IsSubSeqOf(_, _)
IsSubSeqOf(a, b) ==
    IF a = <<>> THEN TRUE
    ELSE IF b = <<>> THEN FALSE
    ELSE IF Head(a) = Head(b) THEN IsSubSeqOf(Tail(a), Tail(b))
    ELSE IsSubSeqOf(a, Tail(b))

\* C11 (as claimed): side-effect preservation: when the body of a
\* conditional, loop or range statement is pruned, every call expression of
\* its init, condition, post or collection expression is in the replacement
\* list as a bare call, init calls before condition calls.
C11_EveryHeaderCallKept ==
    (tpc = "replaced" /\ origStmt.kind \in {"if", "for", "range"}
        /\ ~IsReached(origStmt.Body)) =>
        IsSubSeqOf([k \in 1..Len(HeaderCalls(origStmt)) |-> Bare(HeaderCalls(origStmt)[k])],
                   out)

\* C12: replaceStmt returns a select statement itself, always, its clause
\* list reduced in place to the clauses in the reached-statement set, in
\* their order; Trim leaves a select of a function body at its place with
\* exactly those clauses.
ClauseKeys(list) == [k \in 1..Len(list) |-> [list[k] EXCEPT !.Body = <<>>]]

SelectAt(k) ==
    LET list == origTree.Decls[1].Body.List
    IN  /\ k \in 1..Len(list)
        /\ list[k].kind = "select"
        /\ \A j \in 1..(k - 1) : list[j].kind = "expr"

C12_SelectKeepsReachedClauses ==
    /\ (tpc = "replaced" /\ origStmt.kind = "select") =>
          /\ out = <<stmt>>
          /\ stmt = [origStmt EXCEPT
                        !.Body.List = SelectSeq(origStmt.Body.List, IsReached)]
    /\ OneReachedFunc =>
          \A k \in 1..Len(origTree.Decls[1].Body.List) :
              SelectAt(k) =>
                  LET s == origTree.Decls[1].Body.List[k]
                      t == tree.Decls[1].Body.List[k]
                  IN  /\ t.kind = "select"
                      /\ ClauseKeys(t.Body.List) =
                            ClauseKeys(SelectSeq(s.Body.List, IsReached))

\* replaceStmt has run on a select of two clauses, neither reached: the
\* select is returned with an empty clause list; and Trim has run on a
\* function whose select has one of two clauses reached.
C12_Witness ==
    \/ /\ tpc = "replaced"
       /\ origStmt.kind = "select"
       /\ Len(origStmt.Body.List) = 2
       /\ \A k \in 1..2 : ~origStmt.Body.List[k].reached
       /\ Len(out) = 1
       /\ out[1].kind = "select"
       /\ out[1].Body.List = <<>>
    \/ /\ OneReachedFunc
       /\ SelectAt(2)
       /\ Len(origTree.Decls[1].Body.List[2].Body.List) = 2
       /\ Len(tree.Decls[1].Body.List[2].Body.List) = 1

\* C13: idempotence: Trim applied a second time, with the same Profile, to
\* the tree the first Trim left changes nothing.
C13_RetrimChangesNothing == tpc = "retrimmed" => tree = onceTree

\* Trim has run twice on a file that the first Trim changed below its
\* declarations (statements were replaced or an else was cleared).
C13_Witness ==
    /\ tpc = "retrimmed"
    /\ Len(origTree.Decls) = 1
    /\ Len(onceTree.Decls) = 1
    /\ onceTree # origTree
    /\ tree = onceTree

\* C15 (as claimed): a label wrapping a loop, range or conditional whose
\* body was not reached is reduced exactly as the unlabeled inner statement
\* would be.
C15_LabelDelegates ==
    (tpc = "replaced" /\ origStmt.kind = "labeled"
        /\ origStmt.Stmt.kind \in {"for", "range", "if"}
        /\ ~IsReached(origStmt.Stmt.Body)) =>
        out = replaceStmt(origStmt.Stmt)

(***************************************************************************)
(* Claims about parseProfile.                                              *)
(***************************************************************************)
\* The file at index k of prof.Files has no reached function declaration.
AllUnreached(k) == SelectSeq(profFiles[k].Decls, IsReachedFunc) = <<>>

\* Something was written for the file at index k.
HasOutput(k) ==
    \/ \E j \in 1..Len(created) : created[j].file = k
    \/ \E j \in 1..Len(stdout) : stdout[j].file = k

\* C14: a file whose every function is unreached produces no output at all
\* (no destination file, nothing on the console), and the loop goes on to
\* the next file: when parseProfile returns without error, every other file
\* has its output.
C14_UnreachedFileOmitted ==
    /\ \A k \in 1..Len(profFiles) : AllUnreached(k) => ~HasOutput(k)
    /\ (tpc = "returned" /\ retErr = "none") =>
          \A k \in 1..Len(profFiles) : ~AllUnreached(k) => HasOutput(k)

\* parseProfile has returned without error from two files, the first with
\* an unreached function only, the second with a reached one: only the
\* second was written.
C14_Witness ==
    /\ tpc = "returned"
    /\ retErr = "none"
    /\ Len(profFiles) = 2
    /\ Len(profFiles[1].Decls) > 0
    /\ AllUnreached(1)
    /\ ~HasOutput(1)
    /\ HasOutput(2)

(***************************************************************************)
(* Claims about the block instrumenter.                                    *)
(***************************************************************************)
\* C16 (as claimed): disjointness: the blocks the instrumenter emits for a
\* file are pairwise non-overlapping: taken by start position, the end of a
\* block is at or before the start of the next.
C16_BlocksDisjoint ==
    cpc = "covered" =>
        \A j, k \in 1..Len(cblocks) :
            (j # k /\ cblocks[j].startByte <= cblocks[k].startByte) =>
                cblocks[j].endByte <= cblocks[k].startByte

\* The expression, branch and other simple statements of a tree, those
\* inside function literals included.
RECURSIVE SimpleStmts(_)
SimpleStmts(n) ==
    (IF n.kind \in {"expr", "branch"} THEN {n} ELSE {}) \cup
    UNION {SimpleStmts(Children(n)[k]) : k \in 1..Len(Children(n))}

\* The blocks whose span [startByte, endByte) holds the position p.
BlocksAt(p) == {k \in 1..Len(cblocks) : cblocks[k].startByte <= p /\ p < cblocks[k].endByte}

\* C17 (as claimed): coverage: every position of every statement lies in
\* exactly one emitted block span (stated for the simple statements, the
\* part after the closing brace of a function literal included).
C17_EveryPositionCovered ==
    cpc = "covered" =>
        \A s \in SimpleStmts(cfile) :
            \A p \in s.Pos..(s.End - 1) : Cardinality(BlocksAt(p)) = 1

(***************************************************************************)
(* Claims about rewritePkg and the self-check.                             *)
(***************************************************************************)
\* Two of the blocks overlap.
HasOverlap(bs) ==
    \E a, b \in 1..Len(bs) :
        a # b /\ bs[a].startByte <= bs[b].startByte /\ bs[a].endByte > bs[b].startByte

\* The diagnostics written for the file k.
DiagnosticsOf(k) == {n \in 1..Len(stderr) : stderr[n].name = k}

\* C18 (as claimed): overlapping blocks are never silently tolerated: for
\* every file rewritePkg instrumented (not only the first of the package),
\* if two of its blocks overlap, the self-check has reported a pair with
\* both spans once the task of the file has returned without error.
C18_OverlapAlwaysReported ==
    \A k \in 1..Len(pkgFiles) :
        (rpc[k] \in {"returned", "sent"} /\ rret[k] = "nil" /\ HasOverlap(fblocks[k])) =>
            \E n \in DiagnosticsOf(k) :
                /\ Len(stderr[n].spans) = 4
                /\ stderr[n].spans[2] > stderr[n].spans[3]

\* C19: detecting overlapping blocks does not abort: when the self-check has
\* written a diagnostic for a file and its task has returned, the task
\* returned no error and the last thing it wrote is the whole declaration
\* block: the array sizes, a position triple with both columns and a
\* statement count for every block of the file.
C19_OverlapDoesNotAbort ==
    \A k \in 1..Len(pkgFiles) :
        (rpc[k] \in {"returned", "sent"} /\ DiagnosticsOf(k) # {}) =>
            /\ rret[k] = "nil"
            /\ woutput[k] # <<>>
            /\ LET d == woutput[k][Len(woutput[k])]
                   bs == fblocks[k]
               IN  /\ d.kind = "decl"
                   /\ d.Count = Len(bs)
                   /\ Len(d.Pos) = Len(bs)
                   /\ Len(d.NumStmt) = Len(bs)
                   /\ \A j \in 1..Len(bs) :
                         /\ d.Pos[j][3] % 65536 = bs[j].startByte - pkgFiles[k].Pos + 1
                         /\ d.Pos[j][3] \div 65536 = bs[j].endByte - pkgFiles[k].Pos + 1
                         /\ d.NumStmt[j] = bs[j].numStmt

\* C19 witness: a task has returned after the self-check reported an overlap
\* in its file, and the package has a second file.
C19_Witness ==
    \E k \in 1..Len(pkgFiles) :
        /\ rpc[k] \in {"returned", "sent"}
        /\ DiagnosticsOf(k) # {}
        /\ HasOverlap(fblocks[k])
        /\ Len(pkgFiles) > 1

(***************************************************************************)
(* Claims about the rewrite of go statements.                              *)
(***************************************************************************)
\* The events of a kind, by their place in the log.
EventsOf(kind) == {n \in 1..Len(glog) : glog[n].ev = kind}

\* What the function of `go fn(args)` receives when the statement, as it was
\* written, runs with the variables env: the values of the variables, the
\* constant 1 converted to the type of the parameter.
OrigValue(arg, env) ==
    IF arg.kind = "lit" THEN [type |-> env["fn"].ptype, v |-> 1] ELSE env[arg.Name]

OrigReceived(call, env) ==
    LET values == [k \in 1..Len(call.Args) |-> OrigValue(call.Args[k], env)]
    IN  IF ~call.Ellipsis /\ env["fn"].variadic
          THEN SubSeq(values, 1, env["fn"].fixed) \o
               <<[type |-> SliceOf(env["fn"].ptype),
                  elems |-> SubSeq(values, env["fn"].fixed + 1, Len(values))]>>
          ELSE values

\* The operands of the original go statement: the function, then the
\* arguments in the order written.
OrigOperands == <<gorig.Fun>> \o gorig.Args

\* C20 (as claimed): ordering of a rewritten `go f(a, b, c)`: the function
\* value and the arguments are evaluated by the spawning task before the new
\* task starts, in the order written, as arguments of MakeFunc (of
\* MakeVariadicFunc exactly when the call spreads its last argument); in the
\* new task ChildEnable(trace id) is done before the closure is called; and
\* the closure calls the function: the function called and what it receives
\* are those of the original statement at the spawn point, whatever the
\* spawning task assigned since.
C20_SpawnEvaluatesEagerly ==
    /\ \A n \in EventsOf("spawn") :
          LET evals == SelectSeq(SubSeq(glog, 1, n - 1), LAMBDA e : e.ev = "eval")
          IN  /\ EventsOf("eval") \subseteq 1..(n - 1)
              /\ Len(evals) = Len(OrigOperands)
              /\ \A k \in 1..Len(OrigOperands) :
                    /\ evals[k].name = ArgText(OrigOperands[k])
                    /\ IF OrigOperands[k].kind = "lit"
                       THEN evals[k].value.v = 1
                       ELSE evals[k].value = glog[n].env[OrigOperands[k].Name]
              /\ glog[n - 1].ev = "make"
              /\ (glog[n - 1].fn = "MakeVariadicFunc") <=> gorig.Ellipsis
              /\ glog[n - 1].fn \in {"MakeFunc", "MakeVariadicFunc"}
    /\ \A n \in EventsOf("call") :
          /\ \E m \in EventsOf("ChildEnable") :
                m < n /\ glog[m].id = genv[traceIDName]
          /\ \E m \in EventsOf("spawn") :
                /\ m < n
                /\ glog[n].fn = glog[m].env["fn"]
                /\ glog[n].panic = "none"
                /\ glog[n].received = OrigReceived(gorig, glog[m].env)

(***************************************************************************)
(* Claims about the statements replaceStmt passes through.                 *)
(***************************************************************************)
\* C27: a statement that is not a range, loop, conditional or select
\* statement passes through replaceStmt untouched: the result is the
\* one-element list of that statement, as it was, reached or not; no case
\* clause of a switch is removed.
C27_OthersPassThrough ==
    (tpc = "replaced" /\ origStmt.kind \notin {"nil", "range", "for", "if", "select"}) =>
        /\ out = <<origStmt>>
        /\ stmt = origStmt

\* C27 witness: replaceStmt has run on a switch statement that is not in
\* the reached set and has a clause that is not reached either.
C27_Witness ==
    /\ tpc = "replaced"
    /\ origStmt.kind = "switch"
    /\ ~origStmt.reached
    /\ \E k \in 1..Len(origStmt.Body.List) : ~origStmt.Body.List[k].reached

(***************************************************************************)
(* Claims about addCounters.                                               *)
(***************************************************************************)
IsCounter(x) == x.kind = "counter"

\* The statement of the list given to addCounters starts a basic block: it
\* is the first of the list or follows a statement that ends one.
StartsBasicBlock(x) ==
    \E k \in 1..Len(acall.list) :
        /\ acall.list[k] = x
        /\ k = 1 \/ endsBasicSourceBlock(acall.list[k - 1])

\* C25: addCounters only inserts: the list it returns, without the counter
\* statements, is the list it was given; every counter stands right before
\* the first statement of a basic block, or is the only element, with count
\* 0 and the span of the whole list, when the list given is empty; the
\* counters are those of the blocks recorded, in order.
C25_OnlyInserts ==
    apc = "returned" =>
        /\ SelectSeq(anew, LAMBDA x : ~IsCounter(x)) = acall.list
        /\ [k \in 1..Len(ablocks) |-> newCounter(ablocks[k].startByte, ablocks[k].endByte,
                                                 ablocks[k].numStmt)]
             = SelectSeq(anew, IsCounter)
        /\ IF acall.list = <<>>
             THEN anew = <<newCounter(acall.pos, acall.blockEnd, 0)>>
             ELSE \A j \in 1..Len(anew) :
                     IsCounter(anew[j]) =>
                        /\ j < Len(anew)
                        /\ ~IsCounter(anew[j + 1])
                        /\ StartsBasicBlock(anew[j + 1])

\* C25 witness: the call returned a list with two counters for a list of
\* more than one statement.
C25_Witness ==
    /\ apc = "returned"
    /\ Len(acall.list) > 1
    /\ Len(SelectSeq(anew, IsCounter)) > 1

\* The last statement of the list given to addCounters (the list not empty).
LastStmt == acall.list[Len(acall.list)]

\* A statement of the list other than the last ends a basic block.
EarlierEnder ==
    \E k \in 1..(Len(acall.list) - 1) : endsBasicSourceBlock(acall.list[k])

\* C26 (as claimed): for the list of a block whose last basic block holds
\* no statement that ends a basic block, the last block recorded ends at the
\* closing position of the enclosing block, just past the closing brace,
\* also when an earlier statement of the list ends a basic block.
C26_TailExtendsToBrace ==
    (apc = "returned" /\ acall.extend /\ acall.list # <<>> /\
     ~endsBasicSourceBlock(LastStmt)) =>
        /\ ablocks # <<>>
        /\ ablocks[Len(ablocks)].endByte = acall.blockEnd

\* C26 (amended): the last block recorded ends at the closing position of
\* the enclosing block only when no statement of the list ends a basic
\* block; when an earlier statement does, the last block ends where its last
\* statement ends.
C26_TailExtendsUnlessBroken ==
    (apc = "returned" /\ acall.extend /\ acall.list # <<>> /\
     ~endsBasicSourceBlock(LastStmt)) =>
        /\ ablocks # <<>>
        /\ ablocks[Len(ablocks)].endByte =
              IF EarlierEnder THEN EndOf(LastStmt) ELSE acall.blockEnd

\* C26 witness: a block list with a statement that ends a basic block and a
\* plain statement after it.
C26_Witness ==
    /\ apc = "returned"
    /\ acall.extend
    /\ acall.list # <<>>
    /\ ~endsBasicSourceBlock(LastStmt)
    /\ EarlierEnder
    /\ EndOf(LastStmt) < acall.blockEnd

RECURSIVE SumStmts(_)
SumStmts(bs) == IF bs = <<>> THEN 0 ELSE Head(bs).numStmt + SumStmts(Tail(bs))

\* The bare blocks of the list that directly follow a statement that ends a
\* basic block.
AbuttingBlocks ==
    {k \in 2..Len(acall.list) :
        acall.list[k].kind = "block" /\ endsBasicSourceBlock(acall.list[k - 1])}

\* C29 (as claimed): the statement counts of the blocks recorded for a list
\* sum to the length of the list.
C29_CountsSumToLength ==
    apc = "returned" => SumStmts(ablocks) = Len(acall.list)

\* C29 (amended): the statement counts sum to the length of the list less
\* the bare blocks that directly follow a statement ending a basic block:
\* for such a block start and boundary coincide and no block is recorded.
C29_CountsSumButAbutting ==
    apc = "returned" =>
        SumStmts(ablocks) = Len(acall.list) - Cardinality(AbuttingBlocks)

\* C29 witness: the list holds a bare block right after a statement that
\* ends a basic block.
C29_Witness ==
    /\ apc = "returned"
    /\ AbuttingBlocks # {}

(***************************************************************************)
(* Claims about the console.                                               *)
(***************************************************************************)
\* The tasks between stdoutLock.Lock() and their return.
Writers == {k \in 1..Len(pkgFiles) : rpc[k] \in {"locked", "commented", "printed"}}

\* C23: with no destination the writes to the console are mutually
\* exclusive per file: at most one task at a time is between its first and
\* its last write, that task holds stdoutLock, and what the files wrote is
\* never interleaved.
C23_ConsoleWritesExclusive ==
    dst = "" =>
        /\ Cardinality(Writers) <= 1
        /\ \A k \in Writers : stdoutLock = k
        /\ \A a, b, c \in 1..Len(console) :
              (a < b /\ b < c /\ console[a].file = console[c].file) =>
                 console[b].file = console[a].file

\* C23 witness: two files were written to the console, the declaration
\* block after the first.
C23_Witness ==
    /\ dst = ""
    /\ Cardinality({console[n].file : n \in 1..Len(console)}) > 1
    /\ \E n \in 1..Len(console) : console[n].kind = "decl"

\* ------------------------------------------------------------------------
\* Part VI. ParseProfile: the loop over the cover profiles (parse.go).
\* ------------------------------------------------------------------------

\* Largest number of cover profiles given to ParseProfile.
MaxProfs == 2

\* prof.FileName: an import path and a file name.
ProfNames == [dir : {"p"}, file : {"a.go", "b.go"}]

\* prof.Blocks: no record, or one record, counted or not, from the opening
\* brace of the function at 1.21 to the end of the body of a.go (1.28) or of
\* b.go (1.23).
ProfBlockLists ==
    {<<>>} \cup
    {<<[StartLine |-> 1, StartCol |-> 21, EndLine |-> 1, EndCol |-> e, Count |-> c]>> :
        e \in {23, 28}, c \in {0, 1}}

\* A *cover.Profile with what the file system holds for it: whether
\* build.Import finds its package and whether parser.ParseFile accepts the
\* file.
CoverProfiles ==
    [FileName : ProfNames, importable : BOOLEAN, parses : BOOLEAN,
     Blocks : ProfBlockLists]

\* The extents funcVisitor collects in a file (parse.go:144-168), in the
\* order of ast.Walk.  a.go is `package p; func f() { x() }`, b.go is
\* `package p; func f() {}`: the function declaration is a function extent;
\* its body block, which ends where the function ends, and the statement in
\* it are statement extents.
SourceFuncs(file) ==
    IF file = "a.go"
    THEN WithIds(<<[startLine |-> 1, startCol |-> 12, endLine |-> 1, endCol |-> 28]>>)
    ELSE WithIds(<<[startLine |-> 1, startCol |-> 12, endLine |-> 1, endCol |-> 23]>>)

SourceStmts(file) ==
    IF file = "a.go"
    THEN WithIds(<<[startLine |-> 1, startCol |-> 21, endLine |-> 1, endCol |-> 28],
                   [startLine |-> 1, startCol |-> 23, endLine |-> 1, endCol |-> 26]>>)
    ELSE WithIds(<<[startLine |-> 1, startCol |-> 21, endLine |-> 1, endCol |-> 23]>>)

\* A nil error.
NoError == [what |-> "nil", file |-> <<>>]

\* findFile: the path of the file below the directory of its package, or the
\* error of build.Import wrapped with the file name.
findFile(prof) ==
    IF ~prof.importable
    THEN [filename |-> <<>>,
          err |-> [what |-> "can't find", file |-> <<prof.FileName.file>>]]
    ELSE [filename |-> <<"pkg.Dir", prof.FileName.dir, prof.FileName.file>>,
          err |-> NoError]

\* findFuncs: the parsed file, or the error of parser.ParseFile.
findFuncs(prof, name) ==
    IF ~prof.parses
    THEN [f |-> Nil, funcs |-> <<>>, stmts |-> <<>>,
          err |-> [what |-> "parse", file |-> name]]
    ELSE [f |-> name,
          funcs |-> SourceFuncs(prof.FileName.file),
          stmts |-> SourceStmts(prof.FileName.file),
          err |-> NoError]

\* One sweep of ParseProfile over the extents of a file (parse.go:45-64 for
\* funcs, parse.go:67-87 for stmts): the first record that is not before
\* the extent ends the inner loop; past the extent, the records before it
\* are dropped; otherwise the extent is marked when the record is counted.
\* With no such record the inner loop ends without a break and the outer
\* loop repeats with nothing changed: the sweep does not return.  The key
\* of an extent is its node in the file parsed for profile number parse.
RECURSIVE sweep(_, _, _, _)
sweep(exts, blks, reached, parse) ==
    IF exts = <<>>
    THEN [returns |-> TRUE, reached |-> reached]
    ELSE LET e == Head(exts)
             stops == {k \in 1..Len(blks) :
                          PastEnd(blks[k], e.ext) \/ ~BeforeBeginning(blks[k], e.ext)}
         IN IF stops = {}
            THEN [returns |-> FALSE, reached |-> reached]
            ELSE LET k == CHOOSE m \in stops : \A o \in stops : m <= o
                 IN IF PastEnd(blks[k], e.ext)
                    THEN sweep(DropFirst(exts), Sliced(blks, k), reached, parse)
                    ELSE sweep(DropFirst(exts), blks,
                               MarkIfCounted(reached, [parse |-> parse, id |-> e.id],
                                             blks[k]),
                               parse)

\* return nil, err, mutated: the profile built so far is returned with the error.
failResultMutPartial(profile, err) == [profile |-> profile, err |-> err]

\* return nil, err
failResult(profile, err) == [profile |-> Nil, err |-> err]

\* profile := &Profile{...}; the loop is entered.
ParseInit ==
    /\ CorrIdle
    /\ TrimIdle
    /\ MainIdle
    /\ CoverIdle
    /\ RewriteIdle
    /\ GoIdle
    /\ OrchIdle
    /\ pprofs \in SeqsUpTo(CoverProfiles, MaxProfs)
    /\ pidx = 1
    /\ pprofile = [Files |-> <<>>, Funcs |-> {}, Stmts |-> {}]
    /\ pcalls = <<>>
    /\ pret = Nil
    /\ ppc = "loop"

\* file, err := findFile(prof.FileName); if err != nil { return nil, err }
FindFile ==
    /\ ppc = "loop"
    /\ pidx <= Len(pprofs)
    /\ LET r == findFile(pprofs[pidx])
       IN /\ pcalls' = Append(pcalls, [fn |-> "findFile", idx |-> pidx])
          /\ IF r.err # NoError
             THEN /\ pret' = failResult(pprofile, r.err)
                  /\ ppc' = "returned"
             ELSE /\ ppc' = "found"
                  /\ UNCHANGED pret
    /\ UNCHANGED <<pprofs, pidx, pprofile>>
    /\ UNCHANGED <<corrVars, trimVars, mainVars, buildVars>>

\* f, funcs, stmts, err := findFuncs(profile.Fset, file);
\* if err != nil { return nil, err }; profile.Files = append(profile.Files, f)
FindFuncs ==
    /\ ppc = "found"
    /\ LET r == findFuncs(pprofs[pidx], findFile(pprofs[pidx]).filename)
       IN /\ pcalls' = Append(pcalls, [fn |-> "findFuncs", idx |-> pidx])
          /\ IF r.err # NoError
             THEN /\ pret' = failResult(pprofile, r.err)
                  /\ ppc' = "returned"
                  /\ UNCHANGED pprofile
             ELSE /\ pprofile' = [pprofile EXCEPT !.Files = Append(@, r.f)]
                  /\ ppc' = "parsed"
                  /\ UNCHANGED pret
    /\ UNCHANGED <<pprofs, pidx>>
    /\ UNCHANGED <<corrVars, trimVars, mainVars, buildVars>>

\* The sweep over funcs, then the sweep over stmts, with prof.Blocks each;
\* the loop goes to the next profile.  When a sweep does not return,
\* ParseProfile stays in it for ever.
SweepFile ==
    /\ ppc = "parsed"
    /\ LET r == findFuncs(pprofs[pidx], findFile(pprofs[pidx]).filename)
           fr == sweep(r.funcs, pprofs[pidx].Blocks, pprofile.Funcs, pidx)
           sr == sweep(r.stmts, pprofs[pidx].Blocks, pprofile.Stmts, pidx)
       IN IF ~fr.returns
          THEN /\ pprofile' = [pprofile EXCEPT !.Funcs = fr.reached]
               /\ ppc' = "spin"
               /\ UNCHANGED pidx
          ELSE /\ pprofile' = [pprofile EXCEPT !.Funcs = fr.reached,
                                               !.Stmts = sr.reached]
               /\ IF ~sr.returns
                  THEN ppc' = "spin" /\ UNCHANGED pidx
                  ELSE ppc' = "loop" /\ pidx' = pidx + 1
    /\ UNCHANGED <<pprofs, pcalls, pret>>
    /\ UNCHANGED <<corrVars, trimVars, mainVars, buildVars>>

\* return profile, nil
ParseReturn ==
    /\ ppc = "loop"
    /\ pidx > Len(pprofs)
    /\ pret' = [profile |-> pprofile, err |-> NoError]
    /\ ppc' = "returned"
    /\ UNCHANGED <<pprofs, pidx, pprofile, pcalls>>
    /\ UNCHANGED <<corrVars, trimVars, mainVars, buildVars>>

ParseNext == FindFile \/ FindFuncs \/ SweepFile \/ ParseReturn

SpecParse == ParseInit /\ [][ParseNext]_vars

\* The error the profile makes the loop body fail with, or NoError.
ProfError(prof) ==
    IF findFile(prof).err # NoError
    THEN findFile(prof).err
    ELSE findFuncs(prof, findFile(prof).filename).err

\* The index of the first profile that cannot be found or parsed, or 0.
FirstBad ==
    IF \E k \in 1..Len(pprofs) : ProfError(pprofs[k]) # NoError
    THEN CHOOSE k \in 1..Len(pprofs) :
            /\ ProfError(pprofs[k]) # NoError
            /\ \A j \in 1..(k - 1) : ProfError(pprofs[j]) = NoError
    ELSE 0

\* C24: when findFile or the parse of a profile's file fails, ParseProfile
\* returns that error with a nil *Profile: the files parsed so far are not
\* handed out, no call is made for a later profile, and no call is repeated.
C24_FailureReturnsNilProfile ==
    /\ (ppc = "returned" /\ FirstBad # 0) =>
           /\ pret.err = ProfError(pprofs[FirstBad])
           /\ pret.profile = Nil
    /\ (ppc = "returned" /\ FirstBad = 0) =>
           /\ pret.err = NoError
           /\ Len(pret.profile.Files) = Len(pprofs)
    /\ \A a, b \in 1..Len(pcalls) : (a # b) => pcalls[a] # pcalls[b]
    /\ \A a \in 1..Len(pcalls) :
           FirstBad # 0 => pcalls[a].idx <= FirstBad

\* C24: ParseProfile has returned the error of the second profile after the
\* file of the first one was parsed and appended to profile.Files.
C24_Witness ==
    /\ ppc = "returned"
    /\ FirstBad = 2
    /\ Len(pprofile.Files) = 1
    /\ pret.err # NoError

\* ------------------------------------------------------------------------
\* Part VII. Rewrite and rewritePkg: the tasks and their channels
\* (part_003:15-60), with rewriteFile reduced to what it opens and returns.
\* ------------------------------------------------------------------------

\* Largest number of initial packages of the program.
MaxPkgs == 2

\* pkg.Files of a package, as the base names of its files: the files of a
\* package lie in one directory, so their base names differ.
PkgFileLists == {<<>>, <<"a.go">>, <<"b.go">>, <<"a.go", "b.go">>}

\* prog.Fset.File(f.Pos()).Name() of file f of package p: every package has
\* a directory of its own.
FileName(p, f) == <<p, opkgs[p][f]>>

\* filepath.Base
Base(name) == name[2]

\* filepath.Join of a directory and a file name
Join(dir, fn) == <<dir, fn>>

\* path := ""; if dst != "" { path = filepath.Join(dst, filepath.Base(name)) }
destPath(p, f) == IF odst # "" THEN Join(odst, Base(FileName(p, f))) ELSE <<>>

\* The number of the task of file f of package p among all file tasks, from 1.
RECURSIVE UnitNo(_, _)
UnitNo(p, f) == IF p = 1 THEN f ELSE Len(opkgs[p - 1]) + UnitNo(p - 1, f)

\* A nil error on a channel; from names the sending task.
NilFrom(p, f) == [from |-> <<p, f>>, what |-> "nil"]

\* var firstErr error
NilErr == NilFrom(0, 0)

\* make(chan error, n), mutated: a channel that holds one value.
chanCapMutOne(n) == 1

\* make(chan error, len(pkgs)), make(chan error, len(pkg.Files))
chanCap(n) == n

\* The receive loop stops after the first value, mutated from i < n.
collectDoneMutOne(cnt, total) == cnt >= 1 \/ total = 0

\* for i := 0; i < n; i++: the loop has ended.
collectDone(cnt, total) == ~(cnt < total)

\* The last error is kept, mutated from the first.
keepFirstMutLast(first, err) == IF err.what # "nil" THEN err ELSE first

\* if firstErr == nil { firstErr = err }
keepFirst(first, err) == IF first.what = "nil" THEN err ELSE first

\* The channels are made and every go statement has run; no task has taken
\* a step.
OrchInit ==
    /\ CorrIdle
    /\ TrimIdle
    /\ MainIdle
    /\ CoverIdle
    /\ RewriteIdle
    /\ GoIdle
    /\ ParseIdle
    /\ opkgs \in SeqsUpTo(PkgFileLists, MaxPkgs)
    /\ odst \in {"", "out"}
    /\ ounit = [p \in 1..Len(opkgs) |->
                   [f \in 1..Len(opkgs[p]) |-> [pc |-> "start", err |-> NilErr]]]
    /\ opkg = [p \in 1..Len(opkgs) |->
                  [chan |-> <<>>, n |-> 0, firstErr |-> NilErr, recv |-> <<>>,
                   pc |-> "collect"]]
    /\ otop = [chan |-> <<>>, n |-> 0, firstErr |-> NilErr, recv |-> <<>>,
               pc |-> "collect"]
    /\ ocreated = <<>>

\* rewriteFile up to os.Create: ioutil.ReadFile, os.MkdirAll or os.Create
\* fails and rewriteFile returns the error, or the output is open; with a
\* destination the file at path has been created.
UnitOpen(p, f) ==
    /\ ounit[p][f].pc = "start"
    /\ \E ok \in BOOLEAN :
          IF ok
          THEN /\ ounit' = [ounit EXCEPT ![p][f].pc = "opened"]
               /\ ocreated' = IF destPath(p, f) # <<>>
                              THEN Append(ocreated,
                                          [path |-> destPath(p, f), unit |-> <<p, f>>])
                              ELSE ocreated
          ELSE /\ ounit' = [ounit EXCEPT ![p][f] =
                               [pc |-> "done", err |-> [from |-> <<p, f>>, what |-> "open"]]]
               /\ UNCHANGED ocreated
    /\ UNCHANGED <<opkgs, odst, opkg, otop>>
    /\ UNCHANGED <<stdoutLock, console>>
    /\ UNCHANGED <<corrVars, trimVars, mainVars, parseVars, coverVars, rewriteRest, goVars>>

\* rewriteFile from the instrumentation to stdoutLock.Lock(): the two walks
\* change the file of the task only; without a destination the task waits
\* for the lock and takes it.
UnitLock(p, f) ==
    /\ ounit[p][f].pc = "opened"
    /\ IF odst = ""
       THEN stdoutLock = 0 /\ stdoutLock' = UnitNo(p, f)
       ELSE UNCHANGED stdoutLock
    /\ ounit' = [ounit EXCEPT ![p][f].pc = "locked"]
    /\ UNCHANGED <<opkgs, odst, opkg, otop, ocreated, console>>
    /\ UNCHANGED <<corrVars, trimVars, mainVars, parseVars, coverVars, rewriteRest, goVars>>

\* What a task that writes to the console leaves on it: the initial comments
\* (part_003:111), the printed file (part_003:115) and, for the first file
\* of a package, the declarations (part_003:119-121), up to the write that
\* fails.
unitWrites(p, f, outcome) ==
    LET entry(kind) == [file |-> FileName(p, f), kind |-> kind]
    IN  IF outcome = "write" THEN <<>>
        ELSE IF outcome = "print" THEN <<entry("comments")>>
        ELSE IF addDecl(f) THEN <<entry("comments"), entry("file"), entry("decl")>>
        ELSE <<entry("comments"), entry("file")>>

\* rewriteFile, the writes to output: output.Write or printer.Fprint fails
\* and its error is what rewriteFile will return, or all is written and nil
\* is; without a destination the output is the console, which keeps what
\* was written before a failure.
UnitWrite(p, f) ==
    /\ ounit[p][f].pc = "locked"
    /\ \E outcome \in {"ok", "write", "print"} :
          /\ ounit' = [ounit EXCEPT ![p][f] =
                          [pc |-> "written",
                           err |-> [from |-> <<p, f>>,
                                    what |-> IF outcome = "ok" THEN "nil" ELSE "write"]]]
          /\ console' = IF odst = ""
                        THEN console \o unitWrites(p, f, outcome)
                        ELSE console
    /\ UNCHANGED <<opkgs, odst, opkg, otop, ocreated, stdoutLock>>
    /\ UNCHANGED <<corrVars, trimVars, mainVars, parseVars, coverVars, rewriteRest, goVars>>

\* rewriteFile returns; the deferred stdoutLock.Unlock() runs if the task
\* took the lock.
UnitReturn(p, f) ==
    /\ ounit[p][f].pc = "written"
    /\ ounit' = [ounit EXCEPT ![p][f].pc = "done"]
    /\ stdoutLock' = IF stdoutLock = UnitNo(p, f) THEN 0 ELSE stdoutLock
    /\ UNCHANGED <<opkgs, odst, opkg, otop, ocreated, console>>
    /\ UNCHANGED <<corrVars, trimVars, mainVars, parseVars, coverVars, rewriteRest, goVars>>

\* errs <- rewriteFile(prog.Fset, f, path, addDecl): the send waits while
\* the channel is full.
UnitSend(p, f) ==
    /\ ounit[p][f].pc = "done"
    /\ Len(opkg[p].chan) < chanCap(Len(opkgs[p]))
    /\ opkg' = [opkg EXCEPT ![p].chan = Append(@, ounit[p][f].err)]
    /\ ounit' = [ounit EXCEPT ![p][f].pc = "sent"]
    /\ UNCHANGED <<opkgs, odst, otop, ocreated>>
    /\ UNCHANGED <<stdoutLock, console>>
    /\ UNCHANGED <<corrVars, trimVars, mainVars, parseVars, coverVars, rewriteRest, goVars>>

\* rewritePkg: err := <-errs; if firstErr == nil { firstErr = err }
PkgReceive(p) ==
    /\ opkg[p].pc = "collect"
    /\ ~collectDone(opkg[p].n, Len(opkgs[p]))
    /\ opkg[p].chan # <<>>
    /\ opkg' = [opkg EXCEPT ![p] =
                   [chan |-> Tail(@.chan),
                    n |-> @.n + 1,
                    firstErr |-> keepFirst(@.firstErr, Head(@.chan)),
                    recv |-> Append(@.recv, Head(@.chan)),
                    pc |-> "collect"]]
    /\ UNCHANGED <<opkgs, odst, ounit, otop, ocreated>>
    /\ UNCHANGED <<stdoutLock, console>>
    /\ UNCHANGED <<corrVars, trimVars, mainVars, parseVars, coverVars, rewriteRest, goVars>>

\* rewritePkg: return firstErr
PkgReturn(p) ==
    /\ opkg[p].pc = "collect"
    /\ collectDone(opkg[p].n, Len(opkgs[p]))
    /\ opkg' = [opkg EXCEPT ![p].pc = "done"]
    /\ UNCHANGED <<opkgs, odst, ounit, otop, ocreated>>
    /\ UNCHANGED <<stdoutLock, console>>
    /\ UNCHANGED <<corrVars, trimVars, mainVars, parseVars, coverVars, rewriteRest, goVars>>

\* errs <- rewritePkg(prog, p, dst)
PkgSend(p) ==
    /\ opkg[p].pc = "done"
    /\ Len(otop.chan) < chanCap(Len(opkgs))
    /\ otop' = [otop EXCEPT !.chan = Append(@, [from |-> p, err |-> opkg[p].firstErr])]
    /\ opkg' = [opkg EXCEPT ![p].pc = "sent"]
    /\ UNCHANGED <<opkgs, odst, ounit, ocreated>>
    /\ UNCHANGED <<stdoutLock, console>>
    /\ UNCHANGED <<corrVars, trimVars, mainVars, parseVars, coverVars, rewriteRest, goVars>>

\* Rewrite: err := <-errs; if firstErr == nil { firstErr = err }
TopReceive ==
    /\ otop.pc = "collect"
    /\ ~collectDone(otop.n, Len(opkgs))
    /\ otop.chan # <<>>
    /\ otop' = [chan |-> Tail(otop.chan),
                n |-> otop.n + 1,
                firstErr |-> keepFirst(otop.firstErr, Head(otop.chan).err),
                recv |-> Append(otop.recv, Head(otop.chan)),
                pc |-> "collect"]
    /\ UNCHANGED <<opkgs, odst, ounit, opkg, ocreated>>
    /\ UNCHANGED <<stdoutLock, console>>
    /\ UNCHANGED <<corrVars, trimVars, mainVars, parseVars, coverVars, rewriteRest, goVars>>

\* Rewrite: return firstErr
TopReturn ==
    /\ otop.pc = "collect"
    /\ collectDone(otop.n, Len(opkgs))
    /\ otop' = [otop EXCEPT !.pc = "returned"]
    /\ UNCHANGED <<opkgs, odst, ounit, opkg, ocreated>>
    /\ UNCHANGED <<stdoutLock, console>>
    /\ UNCHANGED <<corrVars, trimVars, mainVars, parseVars, coverVars, rewriteRest, goVars>>

UnitStep ==
    \E p \in 1..Len(opkgs) : \E f \in 1..Len(opkgs[p]) :
        \/ UnitOpen(p, f)
        \/ UnitLock(p, f)
        \/ UnitWrite(p, f)
        \/ UnitReturn(p, f)
        \/ UnitSend(p, f)

PkgStep ==
    \E p \in 1..Len(opkgs) : PkgReceive(p) \/ PkgReturn(p) \/ PkgSend(p)

OrchNext == UnitStep \/ PkgStep \/ TopReceive \/ TopReturn

SpecOrch == OrchInit /\ [][OrchNext]_vars

\* The scheduler runs every task that can take a step: each rewriteFile
\* returns, each send and receive that is possible is made.
SpecOrchLive == OrchInit /\ [][OrchNext]_vars /\ WF_vars(OrchNext)

\* The tasks of the files, as pairs of package and file index.
Units == UNION {{<<p, f>> : f \in 1..Len(opkgs[p])} : p \in 1..Len(opkgs)}

\* C21: Rewrite has returned only when every package task has delivered, and
\* a package task has returned only when every one of its file tasks has
\* delivered: no rewriteFile runs after Rewrite returned, failure or not.
C21_ReturnsAfterAllUnits ==
    /\ otop.pc = "returned" =>
          /\ \A p \in 1..Len(opkgs) : opkg[p].pc = "sent"
          /\ \A u \in Units : ounit[u[1]][u[2]].pc = "sent"
    /\ \A p \in 1..Len(opkgs) :
          opkg[p].pc \in {"done", "sent"} =>
             \A f \in 1..Len(opkgs[p]) : ounit[p][f].pc = "sent"

\* C21: Rewrite has returned an error, and a package of two files received a
\* failure first and the result of its other file after it.
C21_Witness ==
    /\ otop.pc = "returned"
    /\ otop.firstErr.what # "nil"
    /\ \E p \in 1..Len(opkgs) :
          /\ Len(opkgs[p]) = 2
          /\ Len(opkg[p].recv) = 2
          /\ opkg[p].recv[1].what # "nil"

\* The first error of a sequence of received errors that is not nil, or nil.
FirstFailure(errors) ==
    IF \E k \in 1..Len(errors) : errors[k].what # "nil"
    THEN errors[CHOOSE k \in 1..Len(errors) :
                   /\ errors[k].what # "nil"
                   /\ \A j \in 1..(k - 1) : errors[j].what = "nil"]
    ELSE NilErr

\* Two error values are the same error: both nil, or the failure of one task.
SameError(a, b) == a.what = b.what /\ (a.what # "nil" => a.from = b.from)

\* The errors Rewrite received from the package tasks, in order.
TopErrors == [k \in 1..Len(otop.recv) |-> otop.recv[k].err]

\* C22: rewritePkg and Rewrite return nil exactly when every task below
\* returned nil, and otherwise the failure that was received first; every
\* result is received, also the ones after the first failure.
C22_FirstReceivedErrorWins ==
    /\ \A p \in 1..Len(opkgs) :
          opkg[p].pc \in {"done", "sent"} =>
             /\ Len(opkg[p].recv) = Len(opkgs[p])
             /\ SameError(opkg[p].firstErr, FirstFailure(opkg[p].recv))
             /\ (opkg[p].firstErr.what = "nil") <=>
                   (\A f \in 1..Len(opkgs[p]) : ounit[p][f].err.what = "nil")
    /\ otop.pc = "returned" =>
          /\ Len(otop.recv) = Len(opkgs)
          /\ SameError(otop.firstErr, FirstFailure(TopErrors))
          /\ (otop.firstErr.what = "nil") <=>
                (\A u \in Units : ounit[u[1]][u[2]].err.what = "nil")

\* C22: Rewrite has returned the failure of the package it heard from first,
\* and the package heard from second failed too.
C22_Witness ==
    /\ otop.pc = "returned"
    /\ Len(otop.recv) = 2
    /\ otop.recv[1].err.what # "nil"
    /\ otop.recv[2].err.what # "nil"
    /\ otop.firstErr = otop.recv[1].err

\* C28: with a destination directory, no two file tasks create the same
\* destination file, also when two packages have a file of the same base
\* name.
C28_DestinationsDistinct ==
    \A a, b \in 1..Len(ocreated) :
        (a # b) => ocreated[a].path # ocreated[b].path

\* A task has a result and the channel it sends on is full.
SendBlocked ==
    \/ \E u \in Units :
          /\ ounit[u[1]][u[2]].pc = "done"
          /\ ~(Len(opkg[u[1]].chan) < chanCap(Len(opkgs[u[1]])))
    \/ \E p \in 1..Len(opkgs) :
          /\ opkg[p].pc = "done"
          /\ ~(Len(otop.chan) < chanCap(Len(opkgs)))

\* The tasks whose results a receive loop has taken.
Senders(recv) == {recv[k].from : k \in 1..Len(recv)}

\* Every receive loop has taken at most one result of each task below it,
\* and when it has ended, exactly one of each.
OneResultPerUnit ==
    /\ \A p \in 1..Len(opkgs) :
          /\ Cardinality(Senders(opkg[p].recv)) = Len(opkg[p].recv)
          /\ Senders(opkg[p].recv) \subseteq {u \in Units : u[1] = p}
          /\ opkg[p].pc \in {"done", "sent"} =>
                Senders(opkg[p].recv) = {u \in Units : u[1] = p}
    /\ Cardinality(Senders(otop.recv)) = Len(otop.recv)
    /\ otop.pc = "returned" => Senders(otop.recv) = 1..Len(opkgs)

\* C30: Rewrite does not deadlock: each channel holds as many values as
\* tasks send on it, so no send waits; each receive loop takes one result
\* per task; and Rewrite returns in the end, with no packages or with a
\* package of no files too.
C30_RewriteReturns ==
    /\ [](~SendBlocked /\ OneResultPerUnit)
    /\ <>(otop.pc = "returned")

\* C30: Rewrite has returned for a program of a package with no files and a
\* package of two.
C30_Witness ==
    /\ otop.pc = "returned"
    /\ \E p, q \in 1..Len(opkgs) : Len(opkgs[p]) = 0 /\ Len(opkgs[q]) = 2

====
